---- MODULE Spec2Model ----
(***************************************************************************)
(* Model of the Canvas assignment bot: the SQLite store of                 *)
(* database/db_manager.py, the time helpers of utils/datetime_utils.py,    *)
(* the sync cycle of utils/sync.py and the drivers and commands of bot.py. *)
(*                                                                         *)
(* Instants are integers counting milliseconds since Monday                *)
(* 2025-10-13T00:00:00Z.  A canonical timestamp string                     *)
(* 'YYYY-MM-DDTHH:MM:SSZ' is represented by the instant it denotes, which  *)
(* is a whole number of seconds; the lexicographic order of such strings   *)
(* (used by SQL BETWEEN) is the order of the instants.  SQL NULL / Python  *)
(* None is NULL for numbers and "NULL" for text.  A table is a function    *)
(* from the primary keys of its rows to the rows.                          *)
(***************************************************************************)
EXTENDS Integers, Sequences, FiniteSets, TLC

VARIABLES
  now,                           \* the wall clock read by datetime.now()
  courses,                       \* table courses, keyed by id
  assignments,                   \* table assignments, keyed by <<course_id, id>>
  study_plans,                   \* table study_plans, keyed by <<user_id, course_id, assignment_id>>
  user_assignment_status,        \* table user_assignment_status, same key
  week_completion_notifications, \* table week_completion_notifications, keyed by <<user_id, week_key>>
  tick,                          \* position and locals of the running check_reminders iteration
  sent_work,                     \* deliveries of work-session reminders per <<plan key, tag>> since planned_at last changed
  sent_due,                      \* deliveries of due-date reminders per <<assignment key, tag, user>>
  sent_congrats,                 \* deliveries of the week-completion message per <<user, week_key>>
  weekly,                        \* the weekly_notification driver: whether it runs, its last cycle, what that cycle caught and what the one before caught
  call,                          \* the last direct query of the store and what it returned
  dialogue,                      \* the interactive command a member is in: its kind, listing, position and how it ended
  second,                        \* a second interactive command of the same member waiting in the same channel
  ready,                         \* what on_ready has done so far: its events, _synced_once, and the start() calls per driver
  workload                       \* which inputs the direct client of the store draws from

vars == <<now, courses, assignments, study_plans, user_assignment_status,
          week_completion_notifications, tick, sent_work, sent_due,
          sent_congrats, weekly, call, dialogue, second, ready,
          workload>>

tables == <<courses, assignments, study_plans, user_assignment_status,
            week_completion_notifications>>

----------------------------------------------------------------------------
(* Time *)

Sec  == 1000
Min  == 60 * Sec
Hour == 60 * Min
Day  == 24 * Hour
Week == 7 * Day

NULL == 0 - 1

\* utils/datetime_utils.py get_local_tz: the display timezone, here a fixed
\* offset of UTC-5 (TIMEZONE names a zone without a DST change in the horizon)
get_local_tz == 0 - 5 * Hour

\* the ISO week of the epoch Monday 2025-10-13
EpochIsoWeek == 42

\* dt.isocalendar().week of an aware UTC datetime
isocalendar_week(dt) == EpochIsoWeek + (dt \div Week)

\* parse_canvas_datetime: the instant a Canvas ISO-8601 string denotes; the
\* string is represented by that instant, sub-second digits included
parse_canvas_datetime(value) == value

\* to_utc_iso_z on an aware datetime: UTC, truncated to whole seconds
to_utc_iso_z(dt) == dt - (dt % Sec)

\* to_utc_iso_z on a naive datetime: the wall-clock reading is taken in the
\* display timezone, converted to UTC and truncated
to_utc_iso_z_naive(wall) == to_utc_iso_z(wall - get_local_tz)

\* datetime.now(): the naive local wall-clock reading of an instant
local_wall(t) == t + get_local_tz

\* today.replace(hour=0, ...) - timedelta(days=today.weekday()), on a naive
\* wall-clock reading
monday_of(wall) == wall - (wall % Week)

\* the week's UTC range (start_utc_iso, end_utc_iso) of a naive local Monday
week_start_utc(monday) == to_utc_iso_z_naive(monday)
week_end_utc(monday) == to_utc_iso_z_naive(monday + 6 * Day + 23 * Hour + 59 * Min + 59 * Sec)

\* SQL: x BETWEEN lo AND hi, false when x is NULL
Between(x, lo, hi) == x # NULL /\ lo <= x /\ x <= hi

----------------------------------------------------------------------------
(* The store: database/db_manager.py *)

\* (k :> v) @@ t, written out so that the new row wins
Put(t, k, v) == [x \in DOMAIN t \cup {k} |-> IF x = k THEN v ELSE t[x]]

\* upsert_courses: INSERT ... ON CONFLICT(id) DO UPDATE of every attribute
RECURSIVE upsert_courses(_, _)
upsert_courses(tbl, list) ==
  IF list = <<>> THEN tbl
  ELSE LET c == Head(list)
       IN upsert_courses(Put(tbl, c.id, [name |-> c.name, course_code |-> c.course_code]),
                         Tail(list))

\* the row an assignment dict is inserted as (flags take DEFAULT 0)
NewAssignmentRow(a) ==
  LET has == a.due_at # NULL
      dt  == parse_canvas_datetime(a.due_at)
  IN [name |-> a.name,
      due_at |-> IF has THEN to_utc_iso_z(dt) ELSE NULL,
      week_number |-> IF has THEN isocalendar_week(dt) ELSE NULL,
      html_url |-> a.html_url,
      submitted |-> IF a.has_submitted_submissions THEN 1 ELSE 0,
      due_reminder_2d_sent |-> 0,
      due_reminder_1d_sent |-> 0,
      due_reminder_12h_sent |-> 0]

\* the row after INSERT OR REPLACE: every column from the new values, the
\* flags back at DEFAULT 0
UpdatedAssignmentRow_replace(old, a) == NewAssignmentRow(a)

\* ON CONFLICT(course_id, id) DO UPDATE SET name, due_at, week_number,
\* html_url, submitted
UpdatedAssignmentRow(old, a) ==
  LET new == NewAssignmentRow(a)
  IN [old EXCEPT !.name = new.name,
                 !.due_at = new.due_at,
                 !.week_number = new.week_number,
                 !.html_url = new.html_url,
                 !.submitted = new.submitted]

\* a variant: the conflict target is the assignment id alone, so the upsert
\* overwrites the row of that id in whatever course it is stored
RECURSIVE upsert_assignments_by_id(_, _, _)
upsert_assignments_by_id(tbl, list, course_id) ==
  IF list = <<>> THEN tbl
  ELSE LET a    == Head(list)
           same == {k \in DOMAIN tbl : k[2] = a.id}
           next == IF same = {} THEN Put(tbl, <<course_id, a.id>>, NewAssignmentRow(a))
                   ELSE [k \in DOMAIN tbl |->
                           IF k \in same THEN UpdatedAssignmentRow(tbl[k], a) ELSE tbl[k]]
       IN upsert_assignments_by_id(next, Tail(list), course_id)

RECURSIVE upsert_assignments(_, _, _)
upsert_assignments(tbl, list, course_id) ==
  IF list = <<>> THEN tbl
  ELSE LET a   == Head(list)
           key == <<course_id, a.id>>
           row == IF key \in DOMAIN tbl THEN UpdatedAssignmentRow(tbl[key], a)
                  ELSE NewAssignmentRow(a)
       IN upsert_assignments(Put(tbl, key, row), Tail(list), course_id)

\* upsert_study_plan: on conflict only planned_at_utc and notes are set
upsert_study_plan(tbl, user_id, course_id, assignment_id, planned_at_iso_utc, notes) ==
  LET key == <<user_id, course_id, assignment_id>>
  IN IF key \in DOMAIN tbl
     THEN [tbl EXCEPT ![key].planned_at_utc = planned_at_iso_utc,
                      ![key].notes = notes]
     ELSE Put(tbl, key, [planned_at_utc |-> planned_at_iso_utc,
                         notes |-> notes,
                         reminder_24h_sent |-> 0,
                         reminder_1h_sent |-> 0,
                         reminder_now_sent |-> 0])

\* set_assignment_completed (completed_at_utc is written and never read; it
\* is not part of the model's row)
set_assignment_completed(tbl, user_id, course_id, assignment_id, completed) ==
  Put(tbl, <<user_id, course_id, assignment_id>>,
      [completed |-> IF completed THEN 1 ELSE 0])

\* the study_plans column of a work-session reminder tag (column_map.get)
WorkColumn(reminder_type) ==
  CASE reminder_type = "24h" -> "reminder_24h_sent"
    [] reminder_type = "1h"  -> "reminder_1h_sent"
    [] reminder_type = "now" -> "reminder_now_sent"
    [] OTHER -> "NULL"

\* timedelta(hours=24), timedelta(hours=1) and timedelta(0)
WorkDelta(reminder_type) ==
  CASE reminder_type = "24h" -> 24 * Hour
    [] reminder_type = "1h"  -> Hour
    [] OTHER -> 0

WorkTags == {"24h", "1h", "now"}

\* the SELECT without its "AND sp.reminder_..._sent = 0"
WorkSelect_unflagged(plans, asg, crs, now_utc, reminder_type) ==
  LET lo == to_utc_iso_z(now_utc + WorkDelta(reminder_type) - Min)
      hi == to_utc_iso_z(now_utc + WorkDelta(reminder_type) + Min)
  IN {k \in DOMAIN plans :
        /\ <<k[2], k[3]>> \in DOMAIN asg
        /\ k[2] \in DOMAIN crs
        /\ Between(plans[k].planned_at_utc, lo, hi)}

\* the SELECT with "sp.planned_at_utc = ?" on now + delta: no tolerance
WorkSelect_exact(plans, asg, crs, now_utc, reminder_type) ==
  LET at == to_utc_iso_z(now_utc + WorkDelta(reminder_type))
  IN {k \in DOMAIN plans :
        /\ <<k[2], k[3]>> \in DOMAIN asg
        /\ k[2] \in DOMAIN crs
        /\ plans[k].planned_at_utc = at
        /\ plans[k][WorkColumn(reminder_type)] = 0}

\* the SELECT with "sp.planned_at_utc <= ?" on now + delta + 1 minute: a
\* threshold that has passed is caught up on
WorkSelect_catch_up(plans, asg, crs, now_utc, reminder_type) ==
  LET hi == to_utc_iso_z(now_utc + WorkDelta(reminder_type) + Min)
  IN {k \in DOMAIN plans :
        /\ <<k[2], k[3]>> \in DOMAIN asg
        /\ k[2] \in DOMAIN crs
        /\ plans[k].planned_at_utc <= hi
        /\ plans[k][WorkColumn(reminder_type)] = 0}

\* one of the three SELECTs of get_pending_reminders: the plans joined with
\* their assignment and course whose planned_at_utc is BETWEEN
\* now + delta - 1 minute and now + delta + 1 minute and whose flag is 0
WorkSelect(plans, asg, crs, now_utc, reminder_type) ==
  LET lo == to_utc_iso_z(now_utc + WorkDelta(reminder_type) - Min)
      hi == to_utc_iso_z(now_utc + WorkDelta(reminder_type) + Min)
  IN {k \in DOMAIN plans :
        /\ <<k[2], k[3]>> \in DOMAIN asg
        /\ k[2] \in DOMAIN crs
        /\ Between(plans[k].planned_at_utc, lo, hi)
        /\ plans[k][WorkColumn(reminder_type)] = 0}

\* get_pending_reminders: the rows of the three SELECTs, each tagged
get_pending_reminders(plans, asg, crs, now_utc) ==
  UNION {{[user_id |-> k[1], course_id |-> k[2], assignment_id |-> k[3],
           planned_at_utc |-> plans[k].planned_at_utc, reminder_type |-> tag]
          : k \in WorkSelect(plans, asg, crs, now_utc, tag)} : tag \in WorkTags}

\* the UPDATE with the column of the 24h reminder for every known tag
mark_reminder_sent_first_column(tbl, user_id, course_id, assignment_id, reminder_type) ==
  LET key == <<user_id, course_id, assignment_id>>
  IN IF WorkColumn(reminder_type) = "NULL" \/ key \notin DOMAIN tbl THEN tbl
     ELSE [tbl EXCEPT ![key].reminder_24h_sent = 1]

\* mark_reminder_sent: UPDATE study_plans SET <column> = 1 WHERE key; an
\* unknown tag returns before touching the store
mark_reminder_sent(tbl, user_id, course_id, assignment_id, reminder_type) ==
  LET key == <<user_id, course_id, assignment_id>>
      column == WorkColumn(reminder_type)
  IN IF column = "NULL" \/ key \notin DOMAIN tbl THEN tbl
     ELSE [tbl EXCEPT ![key][column] = 1]

\* the UPDATE without "reminder_now_sent = 0"
update_study_plan_time_keeps_now(tbl, user_id, course_id, assignment_id, new_planned_at_utc) ==
  LET key == <<user_id, course_id, assignment_id>>
  IN IF key \notin DOMAIN tbl THEN tbl
     ELSE [tbl EXCEPT ![key].planned_at_utc = new_planned_at_utc,
                      ![key].reminder_24h_sent = 0,
                      ![key].reminder_1h_sent = 0]

\* the UPDATE with "WHERE course_id = ? AND assignment_id = ?" only: the
\* flags of every user's plan for the assignment are reset
update_study_plan_time_any_user(tbl, user_id, course_id, assignment_id, new_planned_at_utc) ==
  [k \in DOMAIN tbl |->
     IF k[2] = course_id /\ k[3] = assignment_id
     THEN [tbl[k] EXCEPT !.reminder_24h_sent = 0, !.reminder_1h_sent = 0,
                         !.reminder_now_sent = 0,
                         !.planned_at_utc = IF k = <<user_id, course_id, assignment_id>>
                                            THEN new_planned_at_utc ELSE @]
     ELSE tbl[k]]

\* update_study_plan_time: UPDATE study_plans SET planned_at_utc = ?, the
\* three flags = 0 WHERE key
update_study_plan_time(tbl, user_id, course_id, assignment_id, new_planned_at_utc) ==
  LET key == <<user_id, course_id, assignment_id>>
  IN IF key \notin DOMAIN tbl THEN tbl
     ELSE [tbl EXCEPT ![key].planned_at_utc = new_planned_at_utc,
                      ![key].reminder_24h_sent = 0,
                      ![key].reminder_1h_sent = 0,
                      ![key].reminder_now_sent = 0]

\* the assignments column of a due-date reminder tag (column_map.get)
DueColumn(reminder_type) ==
  CASE reminder_type = "2d"  -> "due_reminder_2d_sent"
    [] reminder_type = "1d"  -> "due_reminder_1d_sent"
    [] reminder_type = "12h" -> "due_reminder_12h_sent"
    [] OTHER -> "NULL"

\* timedelta(days=2), timedelta(days=1) and timedelta(hours=12)
DueDelta(reminder_type) ==
  CASE reminder_type = "2d" -> 2 * Day
    [] reminder_type = "1d" -> Day
    [] OTHER -> 12 * Hour

DueTags == {"2d", "1d", "12h"}

\* a variant: the LEFT JOIN leaves out uas.user_id = ?, so a status row of
\* any user counts
CompletedBy_any_user(uas, user_id, akey) ==
  IF \E k \in DOMAIN uas : k[2] = akey[1] /\ k[3] = akey[2] /\ uas[k].completed = 1
  THEN 1 ELSE 0

\* COALESCE(uas.completed, 0) of the LEFT JOIN on this user's status row
CompletedBy(uas, user_id, akey) ==
  IF <<user_id, akey[1], akey[2]>> \in DOMAIN uas
  THEN uas[<<user_id, akey[1], akey[2]>>].completed
  ELSE 0

\* one of the three SELECTs of get_pending_due_date_reminders, db_manager.py
\* 553-615: due_at inside the tolerance window and inside the week of
\* now_utc in the display timezone, flag 0, not completed by this user
DueSelect(asg, crs, uas, now_utc, user_id, reminder_type) ==
  LET monday == monday_of(local_wall(now_utc))
      lo == to_utc_iso_z(now_utc + DueDelta(reminder_type) - Min)
      hi == to_utc_iso_z(now_utc + DueDelta(reminder_type) + Min)
  IN {k \in DOMAIN asg :
        /\ k[1] \in DOMAIN crs
        /\ Between(asg[k].due_at, lo, hi)
        /\ Between(asg[k].due_at, week_start_utc(monday), week_end_utc(monday))
        /\ asg[k][DueColumn(reminder_type)] = 0
        /\ CompletedBy(uas, user_id, k) = 0}

\* the names bound in the module scope of database/db_manager.py: its imports
\* (lines 10-13), DB_PATH and its own functions; get_local_tz is not imported
db_manager_globals ==
  {"aiosqlite", "os", "datetime", "timedelta", "timezone",
   "parse_canvas_datetime", "to_utc_iso_z", "DB_PATH",
   "init_db", "upsert_courses", "get_courses", "upsert_assignments",
   "get_assignments_for_week", "get_assignments_for_week_with_ids",
   "get_all_assignments", "upsert_study_plan", "get_study_plans_for_week",
   "get_user_plans_for_week_detailed", "set_assignment_completed",
   "get_week_assignments_with_status", "get_pending_reminders",
   "mark_reminder_sent", "update_study_plan_time",
   "get_pending_due_date_reminders", "mark_due_date_reminder_sent",
   "check_week_completion", "get_week_completion_notified",
   "mark_week_completion_notified"}

\* the function with get_local_tz bound and the three SELECTs without their
\* "AND a.due_reminder_..._sent = 0"
get_pending_due_date_reminders_unflagged(asg, crs, uas, now_utc, user_id) ==
  LET monday == monday_of(local_wall(now_utc))
      lo(tag) == to_utc_iso_z(now_utc + DueDelta(tag) - Min)
      hi(tag) == to_utc_iso_z(now_utc + DueDelta(tag) + Min)
  IN [raised |-> "none",
      rows |-> UNION {{[id |-> k[2], course_id |-> k[1],
                        due_at |-> asg[k].due_at, reminder_type |-> tag]
                       : k \in {x \in DOMAIN asg :
                                  /\ x[1] \in DOMAIN crs
                                  /\ Between(asg[x].due_at, lo(tag), hi(tag))
                                  /\ Between(asg[x].due_at, week_start_utc(monday),
                                             week_end_utc(monday))
                                  /\ CompletedBy(uas, user_id, x) = 0}}
                      : tag \in DueTags}]

\* the function with get_local_tz bound and the three SELECTs without their
\* "AND a.due_at BETWEEN ? AND ?" of the week
get_pending_due_date_reminders_any_week(asg, crs, uas, now_utc, user_id) ==
  LET lo(tag) == to_utc_iso_z(now_utc + DueDelta(tag) - Min)
      hi(tag) == to_utc_iso_z(now_utc + DueDelta(tag) + Min)
  IN [raised |-> "none",
      rows |-> UNION {{[id |-> k[2], course_id |-> k[1],
                        due_at |-> asg[k].due_at, reminder_type |-> tag]
                       : k \in {x \in DOMAIN asg :
                                  /\ x[1] \in DOMAIN crs
                                  /\ Between(asg[x].due_at, lo(tag), hi(tag))
                                  /\ asg[x][DueColumn(tag)] = 0
                                  /\ CompletedBy(uas, user_id, x) = 0}}
                      : tag \in DueTags}]

\* get_pending_due_date_reminders: line 540 evaluates get_local_tz() before
\* any query; an unbound name raises NameError and nothing is returned
get_pending_due_date_reminders(asg, crs, uas, now_utc, user_id) ==
  IF "get_local_tz" \notin db_manager_globals
  THEN [raised |-> "NameError", rows |-> {}]
  ELSE [raised |-> "none",
        rows |-> UNION {{[id |-> k[2], course_id |-> k[1],
                          due_at |-> asg[k].due_at, reminder_type |-> tag]
                         : k \in DueSelect(asg, crs, uas, now_utc, user_id, tag)}
                        : tag \in DueTags}]

\* the UPDATE with "WHERE id = ?" only: the assignment of that id is
\* marked in every course
mark_due_date_reminder_sent_any_course(tbl, course_id, assignment_id, reminder_type) ==
  LET column == DueColumn(reminder_type)
  IN IF column = "NULL" THEN tbl
     ELSE [k \in DOMAIN tbl |->
             IF k[2] = assignment_id THEN [tbl[k] EXCEPT ![column] = 1] ELSE tbl[k]]

\* mark_due_date_reminder_sent: UPDATE assignments SET <column> = 1 WHERE
\* course_id = ? AND id = ?
mark_due_date_reminder_sent(tbl, course_id, assignment_id, reminder_type) ==
  LET key == <<course_id, assignment_id>>
      column == DueColumn(reminder_type)
  IN IF column = "NULL" \/ key \notin DOMAIN tbl THEN tbl
     ELSE [tbl EXCEPT ![key][column] = 1]

\* a variant: the first COUNT joins the user's status rows too, so the total
\* is that of the assignments the user has a status row for
check_week_completion_own_total(asg, uas, user_id, monday) ==
  LET due == {k \in DOMAIN asg :
                /\ Between(asg[k].due_at, week_start_utc(monday), week_end_utc(monday))
                /\ <<user_id, k[1], k[2]>> \in DOMAIN uas}
      total_count == Cardinality(due)
      completed_count ==
        Cardinality({k \in due : uas[<<user_id, k[1], k[2]>>].completed = 1})
  IN IF total_count = 0 THEN <<TRUE, 0, 0>>
     ELSE <<completed_count = total_count, total_count, completed_count>>

\* check_week_completion: (all_complete, total_count, completed_count) for
\* the week starting at the naive local Monday
check_week_completion(asg, uas, user_id, monday) ==
  LET due == {k \in DOMAIN asg :
                Between(asg[k].due_at, week_start_utc(monday), week_end_utc(monday))}
      total_count == Cardinality(due)
      completed_count ==
        Cardinality({k \in due : /\ <<user_id, k[1], k[2]>> \in DOMAIN uas
                                 /\ uas[<<user_id, k[1], k[2]>>].completed = 1})
  IN IF total_count = 0 THEN <<TRUE, 0, 0>>
     ELSE <<completed_count = total_count, total_count, completed_count>>

\* week_start.strftime("%Y-%U") of a Monday: one key per week, represented
\* by the number of the week since the epoch
week_key(monday) == monday \div Week

\* get_week_completion_notified: row[0] if row else 0
get_week_completion_notified(tbl, user_id, monday) ==
  IF <<user_id, week_key(monday)>> \in DOMAIN tbl
  THEN tbl[<<user_id, week_key(monday)>>].notified
  ELSE 0

\* mark_week_completion_notified: INSERT ... ON CONFLICT DO UPDATE SET notified=1
mark_week_completion_notified(tbl, user_id, monday) ==
  Put(tbl, <<user_id, week_key(monday)>>, [notified |-> 1])

\* get_assignments_for_week_with_ids: the keys of the assignments joined
\* with their course whose due_at is in the week's UTC range
get_assignments_for_week_with_ids(asg, crs, monday) ==
  {k \in DOMAIN asg :
     /\ k[1] \in DOMAIN crs
     /\ Between(asg[k].due_at, week_start_utc(monday), week_end_utc(monday))}

\* get_user_plans_for_week_detailed: the keys of this user's plans in the
\* week's UTC range, joined with assignment and course
get_user_plans_for_week_detailed(plans, asg, crs, user_id, monday) ==
  {k \in DOMAIN plans :
     /\ k[1] = user_id
     /\ <<k[2], k[3]>> \in DOMAIN asg
     /\ k[2] \in DOMAIN crs
     /\ Between(plans[k].planned_at_utc, week_start_utc(monday), week_end_utc(monday))}

\* get_week_assignments_with_status: the week's assignments with this
\* user's COALESCE(uas.completed, 0)
get_week_assignments_with_status(asg, crs, uas, user_id, monday) ==
  {[key |-> k, completed |-> CompletedBy(uas, user_id, k)]
   : k \in get_assignments_for_week_with_ids(asg, crs, monday)}

----------------------------------------------------------------------------
(* Inputs *)

\* the number of guild members that are not bots; their ids are 1..NumUsers
NumUsers == 2
Users == 1..NumUsers

\* planned sessions: Wednesday 19:00:00Z and one minute later
PlanA == 2 * Day + 19 * Hour
PlanB == PlanA + Min
PlanTimes == {PlanA, PlanB}

\* due dates: Friday 23:59:00Z, and Monday 03:00:00Z of the next ISO week,
\* which in the display timezone is still Sunday 22:00 of this week
DueA == 4 * Day + 23 * Hour + 59 * Min
DueB == 7 * Day + 3 * Hour

\* what fetchCourses returns
FetchedCourses ==
  <<[id |-> 1, name |-> "Biology", course_code |-> "BIO101"],
    [id |-> 2, name |-> "History", course_code |-> "NULL"]>>

\* the versions of assignment 1 of a course that fetchAssignments returns:
\* as first published (a due_at with sub-second digits), revised, and
\* without a due date
ItemFirst ==
  [id |-> 1, name |-> "Essay", due_at |-> DueA + 500,
   html_url |-> "https://canvas/a/1", has_submitted_submissions |-> FALSE]
ItemRevised ==
  [id |-> 1, name |-> "Essay (revised)", due_at |-> DueB,
   html_url |-> "NULL", has_submitted_submissions |-> TRUE]
ItemUndated ==
  [id |-> 1, name |-> "Essay", due_at |-> NULL,
   html_url |-> "https://canvas/a/1", has_submitted_submissions |-> FALSE]

\* an assignment due Monday 15:00:00Z of the next week, 10:00 in the display
\* timezone: every threshold before it falls into the week before
DueC == Week + 15 * Hour
ItemNextWeek ==
  [id |-> 1, name |-> "Essay", due_at |-> DueC,
   html_url |-> "https://canvas/a/1", has_submitted_submissions |-> FALSE]

AKeys == {<<1, 1>>, <<2, 1>>}
PlanKeys == {<<u, k[1], k[2]>> : u \in Users, k \in AKeys}

Workloads == {"plans", "assignments", "drivers"}

\* the workloads of a client of the store; the third one varies the same
\* assignment id under two courses
StoreWorkloads == {"plans", "assignments", "courses", "weeks"}
\* the arguments a workload draws from: "plans" varies the study plans of
\* two users over one stored version of the assignments, "assignments"
\* varies the assignments and the completion status under one study plan,
\* "courses" gives assignment 1 of course 1 and assignment 1 of course 2
\* different attributes, plans and completion status
AssignmentCallsOf(w) ==
  CASE w = "assignments" ->
         {<<<<ItemFirst>>, 1>>, <<<<ItemRevised>>, 1>>, <<<<ItemUndated>>, 1>>,
          <<<<ItemFirst>>, 2>>}
    [] w = "courses" -> {<<<<ItemFirst>>, 1>>, <<<<ItemRevised>>, 2>>}
    [] w = "weeks" -> {<<<<ItemNextWeek>>, 1>>}
    [] OTHER -> {<<<<ItemFirst>>, 1>>, <<<<ItemFirst>>, 2>>}
PlanKeysOf(w) ==
  CASE w = "plans" -> {<<1, 1, 1>>, <<2, 1, 1>>}
    [] w = "courses" -> {<<1, 1, 1>>, <<1, 2, 1>>}
    [] OTHER -> {<<1, 1, 1>>}
PlanInputsOf(w) ==
  IF w = "plans" THEN {<<PlanA, "NULL">>, <<PlanB, "library">>, <<PlanB, "NULL">>}
  ELSE {<<PlanA, "NULL">>}
WorkTagsOf(w) == IF w = "plans" THEN WorkTags \cup {"2d"} ELSE {"24h"}
DueMarksOf(w) ==
  CASE w = "assignments" ->
         {<<<<1, 1>>, tag>> : tag \in DueTags \cup {"24h"}}
         \cup {<<<<2, 1>>, "2d">>, <<<<1, 2>>, "2d">>}
    [] w = "courses" -> {<<<<2, 1>>, "2d">>}
    [] OTHER -> {<<<<1, 1>>, "2d">>}
StatusKeysOf(w) ==
  CASE w = "assignments" -> {<<1, 1, 1>>, <<2, 1, 1>>}
    [] w = "courses" -> {<<1, 1, 1>>, <<1, 2, 1>>}
    [] OTHER -> {}

\* the instants a direct query is made at: around the thresholds before
\* PlanA, on and off the ends of the window, and inside the windows before
\* DueA and DueB
WorkQueryInstants ==
  {PlanA - 24 * Hour - 61 * Sec, PlanA - 24 * Hour - Min, PlanA - 24 * Hour + Min + 500,
   PlanA - 24 * Hour + 61 * Sec, PlanA - Hour + 30 * Sec, PlanA - Min}
DueQueryInstants ==
  {DueA - 2 * Day + 30 * Sec, DueA - Day, DueA - 12 * Hour - 61 * Sec, DueB - 12 * Hour}
\* in the workload of weeks: inside the windows before DueC, all of them in
\* the display week before that of DueC
DueQueryInstantsOf(w) ==
  IF w = "weeks" THEN {DueC - 2 * Day + 30 * Sec, DueC - Day, DueC - 12 * Hour - 30 * Sec}
  ELSE DueQueryInstants

\* the record of a direct call: the function, its arguments, the row of
\* the given key before the call (none or one), and what a query raised
\* and returned
Called(op, args, before) ==
  [op |-> op, args |-> args, before |-> before, raised |-> "none", rows |-> {}]
Returned(op, args, raised, rows) ==
  [op |-> op, args |-> args, before |-> {}, raised |-> raised, rows |-> rows]
NoCall == Called("none", <<>>, {})
RowOf(tbl, key) == IF key \in DOMAIN tbl THEN {tbl[key]} ELSE {}

\* the process before its first on_ready event, bot.py 27 and 323-358: no
\* sync done and neither loop started
NotReady ==
  [events |-> 0, init |-> 0, sync |-> 0, synced_once |-> FALSE,
   check_reminders |-> 0, weekly_notification |-> 0]
\* after the first on_ready has returned: both drivers started once
Ready(synced_once) ==
  [events |-> 1, init |-> 0, sync |-> 0, synced_once |-> synced_once,
   check_reminders |-> 1, weekly_notification |-> 1]

\* no interactive command is open
NoMessage == [day |-> "", hh |-> NULL, mm |-> NULL, ap |-> ""]
NoDialogue ==
  [kind |-> "none", pc |-> "idle", user_id |-> 0, monday |-> NULL, rows |-> <<>>,
   index |-> 0, timeouts |-> 0, outcome |-> "none", last |-> NoMessage,
   selection |-> <<>>, before |-> <<>>]

\* check_reminders between iterations: no iteration has read the clock yet
NoTick == [pc |-> "idle", now_utc |-> NULL, prev_now_utc |-> NULL,
           reminders |-> {}, marking |-> {}, raised |-> "none"]

\* weekly_notification as on_ready starts it: running, no cycle yet
NoWeekly == [is_running |-> TRUE, last |-> NULL, raised |-> {}, prev_raised |-> {}]

\* what fetchAssignments returns for the courses of FetchedCourses, in order
FetchFirst == <<<<ItemFirst>>, <<ItemFirst>>>>
FetchRevised == <<<<ItemRevised>>, <<ItemFirst>>>>
FetchesOf(w) == IF w \in {"plans", "drivers"} THEN {FetchFirst} ELSE {FetchFirst, FetchRevised}

\* where a sync cycle's fetch fails: 0 for get_courses, j for get_assignments
\* of the j-th course, Len(FetchedCourses) + 1 for no failure
NoFailure == Len(FetchedCourses) + 1
FailuresOf(w) ==
  CASE w = "plans" -> {NoFailure}
    [] w = "drivers" -> {0, NoFailure}
    [] OTHER -> 0..NoFailure

\* a variant: a failed fetch undoes what the cycle wrote before it
sync_canvas_data_rollback(crs, asg, fetched, failing) ==
  IF failing <= Len(FetchedCourses) THEN <<crs, asg>>
  ELSE <<upsert_courses(crs, FetchedCourses),
         upsert_assignments(upsert_assignments(asg, fetched[1], FetchedCourses[1].id),
                            fetched[2], FetchedCourses[2].id)>>

\* a variant: a failed fetch of a course's assignments is skipped and the
\* cycle goes on with the next course
RECURSIVE SyncAssignments_skipping(_, _, _, _)
SyncAssignments_skipping(asg, fetched, failing, j) ==
  IF j > Len(FetchedCourses) THEN asg
  ELSE SyncAssignments_skipping(
         IF j = failing THEN asg
         ELSE upsert_assignments(asg, fetched[j], FetchedCourses[j].id),
         fetched, failing, j + 1)

\* sync_canvas_data, utils/sync.py 7-24: the courses are upserted, then the
\* assignments course by course; a fetch that raises ends the cycle with
\* everything before it committed
RECURSIVE SyncAssignments(_, _, _, _)
SyncAssignments(asg, fetched, failing, j) ==
  IF j > Len(FetchedCourses) \/ j = failing THEN asg
  ELSE SyncAssignments(upsert_assignments(asg, fetched[j], FetchedCourses[j].id),
                       fetched, failing, j + 1)

sync_canvas_data(crs, asg, fetched, failing) ==
  IF failing = 0 THEN <<crs, asg>>
  ELSE <<upsert_courses(crs, FetchedCourses), SyncAssignments(asg, fetched, failing, 1)>>

----------------------------------------------------------------------------
(* A client calling the functions of database/db_manager.py directly *)

BotIdle ==
  UNCHANGED <<now, tick, sent_work, sent_due, sent_congrats, weekly, dialogue, second,
              ready, workload>>

InitStore ==
  /\ now = 0
  /\ courses = <<>>
  /\ assignments = <<>>
  /\ study_plans = <<>>
  /\ user_assignment_status = <<>>
  /\ week_completion_notifications = <<>>
  /\ tick = NoTick
  /\ sent_work = <<>>
  /\ sent_due = <<>>
  /\ sent_congrats = <<>>
  /\ weekly = NoWeekly
  /\ call = NoCall
  /\ dialogue = NoDialogue
  /\ second = NoDialogue
  /\ ready = NotReady
  /\ workload \in StoreWorkloads

StoreUpsertCourses ==
  /\ courses' = upsert_courses(courses, FetchedCourses)
  /\ call' = Called("upsert_courses", <<FetchedCourses>>, {})
  /\ UNCHANGED <<assignments, study_plans, user_assignment_status,
                 week_completion_notifications>>
  /\ BotIdle

\* as sync_canvas_data calls it: for a course that was just upserted
StoreUpsertAssignments(list, course_id) ==
  /\ course_id \in DOMAIN courses
  /\ assignments' = upsert_assignments(assignments, list, course_id)
  /\ call' = Called("upsert_assignments", <<list, course_id>>,
                    RowOf(assignments, <<course_id, list[1].id>>))
  /\ UNCHANGED <<courses, study_plans, user_assignment_status,
                 week_completion_notifications>>
  /\ BotIdle

\* as send_weekly_assignments calls it: for an assignment of the listing
StoreUpsertStudyPlan(key, planned_at_iso_utc, notes) ==
  /\ <<key[2], key[3]>> \in DOMAIN assignments
  /\ study_plans' = upsert_study_plan(study_plans, key[1], key[2], key[3],
                                      planned_at_iso_utc, notes)
  /\ call' = Called("upsert_study_plan", <<key, planned_at_iso_utc, notes>>,
                    RowOf(study_plans, key))
  /\ UNCHANGED <<courses, assignments, user_assignment_status,
                 week_completion_notifications>>
  /\ BotIdle

StoreMarkReminderSent(key, reminder_type) ==
  /\ study_plans' = mark_reminder_sent(study_plans, key[1], key[2], key[3], reminder_type)
  /\ call' = Called("mark_reminder_sent", <<key, reminder_type>>, RowOf(study_plans, key))
  /\ UNCHANGED <<courses, assignments, user_assignment_status,
                 week_completion_notifications>>
  /\ BotIdle

StoreUpdateStudyPlanTime(key, new_planned_at_utc) ==
  /\ study_plans' = update_study_plan_time(study_plans, key[1], key[2], key[3],
                                           new_planned_at_utc)
  /\ call' = Called("update_study_plan_time", <<key, new_planned_at_utc>>,
                    RowOf(study_plans, key))
  /\ UNCHANGED <<courses, assignments, user_assignment_status,
                 week_completion_notifications>>
  /\ BotIdle

StoreMarkDueDateReminderSent(akey, reminder_type) ==
  /\ assignments' = mark_due_date_reminder_sent(assignments, akey[1], akey[2], reminder_type)
  /\ call' = Called("mark_due_date_reminder_sent", <<akey, reminder_type>>,
                    RowOf(assignments, akey))
  /\ UNCHANGED <<courses, study_plans, user_assignment_status,
                 week_completion_notifications>>
  /\ BotIdle

StoreSetAssignmentCompleted(key, completed) ==
  /\ user_assignment_status' =
       set_assignment_completed(user_assignment_status, key[1], key[2], key[3], completed)
  /\ call' = Called("set_assignment_completed", <<key, completed>>,
                    RowOf(user_assignment_status, key))
  /\ UNCHANGED <<courses, assignments, study_plans, week_completion_notifications>>
  /\ BotIdle

StoreGetPendingReminders(now_utc) ==
  /\ call' = Returned("get_pending_reminders", <<now_utc>>, "none",
                      get_pending_reminders(study_plans, assignments, courses, now_utc))
  /\ UNCHANGED tables
  /\ BotIdle

StoreGetPendingDueDateReminders(now_utc, user_id) ==
  /\ LET res == get_pending_due_date_reminders(assignments, courses,
                                               user_assignment_status, now_utc, user_id)
     IN call' = Returned("get_pending_due_date_reminders", <<now_utc, user_id>>,
                         res.raised, res.rows)
  /\ UNCHANGED tables
  /\ BotIdle

\* the Mondays a week is asked about: the one of the start of the run and
\* the one after it
QueryMondays == {monday_of(local_wall(12 * Hour)), monday_of(local_wall(12 * Hour)) + Week}

StoreGetWeekAssignmentsWithStatus(user_id, monday) ==
  /\ call' = Returned("get_week_assignments_with_status", <<user_id, monday>>, "none",
                      get_week_assignments_with_status(assignments, courses,
                                                       user_assignment_status,
                                                       user_id, monday))
  /\ UNCHANGED tables
  /\ BotIdle

StoreCheckWeekCompletion(user_id, monday) ==
  /\ call' = Returned("check_week_completion", <<user_id, monday>>, "none",
                      {check_week_completion(assignments, user_assignment_status,
                                             user_id, monday)})
  /\ UNCHANGED tables
  /\ BotIdle

\* a variant: the upserts are INSERT OR REPLACE under ON DELETE CASCADE, so
\* the plans and status rows of every assignment the cycle wrote are deleted
StoreSyncCanvasData_replace(fetched, failing) ==
  LET synced == sync_canvas_data(courses, assignments, fetched, failing)
      written == {<<FetchedCourses[j].id, fetched[j][i].id>> :
                    j \in {x \in 1..Len(FetchedCourses) : x < failing},
                    i \in 1..1}
      Kept(tbl) == [k \in {x \in DOMAIN tbl : <<x[2], x[3]>> \notin written} |-> tbl[k]]
  IN /\ courses' = synced[1]
     /\ assignments' = synced[2]
     /\ study_plans' = Kept(study_plans)
     /\ user_assignment_status' = Kept(user_assignment_status)
     /\ call' = Called("sync_canvas_data", <<fetched, failing>>,
                       {[courses |-> courses, assignments |-> assignments]})
     /\ UNCHANGED week_completion_notifications
     /\ BotIdle

\* sync_canvas_data called with what the Gateway returns and where it fails
StoreSyncCanvasData(fetched, failing) ==
  /\ LET synced == sync_canvas_data(courses, assignments, fetched, failing)
     IN /\ courses' = synced[1]
        /\ assignments' = synced[2]
  /\ call' = Called("sync_canvas_data", <<fetched, failing>>,
                    {[courses |-> courses, assignments |-> assignments]})
  /\ UNCHANGED <<study_plans, user_assignment_status, week_completion_notifications>>
  /\ BotIdle

StoreMarkWeekCompletionNotified(user_id, monday) ==
  /\ week_completion_notifications' =
       mark_week_completion_notified(week_completion_notifications, user_id, monday)
  /\ call' = Called("mark_week_completion_notified", <<user_id, monday>>, {})
  /\ UNCHANGED <<courses, assignments, study_plans, user_assignment_status>>
  /\ BotIdle

NextStore ==
  \/ StoreUpsertCourses
  \/ \E arg \in AssignmentCallsOf(workload) : StoreUpsertAssignments(arg[1], arg[2])
  \/ \E key \in PlanKeysOf(workload), inp \in PlanInputsOf(workload) :
       StoreUpsertStudyPlan(key, inp[1], inp[2])
  \/ \E key \in PlanKeysOf(workload), tag \in WorkTagsOf(workload) :
       StoreMarkReminderSent(key, tag)
  \/ \E key \in PlanKeysOf(workload), inp \in PlanInputsOf(workload) :
       StoreUpdateStudyPlanTime(key, inp[1])
  \/ \E arg \in DueMarksOf(workload) : StoreMarkDueDateReminderSent(arg[1], arg[2])
  \/ \E key \in StatusKeysOf(workload), completed \in BOOLEAN :
       StoreSetAssignmentCompleted(key, completed)
  \/ \E n \in WorkQueryInstants : workload = "plans" /\ StoreGetPendingReminders(n)
  \/ \E n \in DueQueryInstantsOf(workload), u \in Users :
       workload \in {"assignments", "weeks"} /\ StoreGetPendingDueDateReminders(n, u)
  \/ \E u \in Users, monday \in QueryMondays :
       workload = "courses" /\ StoreGetWeekAssignmentsWithStatus(u, monday)
  \/ \E u \in Users, monday \in QueryMondays :
       workload = "assignments" /\ StoreCheckWeekCompletion(u, monday)
  \/ \E fetched \in FetchesOf(workload), failing \in FailuresOf(workload) :
       workload = "courses" /\ StoreSyncCanvasData(fetched, failing)
  \/ workload = "courses"
       /\ StoreMarkWeekCompletionNotified(1, monday_of(local_wall(12 * Hour)))

SpecStore == InitStore /\ [][NextStore]_vars

----------------------------------------------------------------------------
(* The bot: the commands and drivers of bot.py, utils/sync.py and        *)
(* utils/weekly.py over the store, with the wall clock advancing         *)

\* the deliveries counted under a key
Count(f, k) == IF k \in DOMAIN f THEN f[k] ELSE 0
Bump(f, k) == Put(f, k, Count(f, k) + 1)

\* the count of a plan starts again when its planned_at is given anew
Forget(f, key) == [x \in {y \in DOMAIN f : y[1] # key} |-> f[x]]

\* the instants the clock is read at: Monday 12:00:00Z, then, in the
\* workload of plans, two readings a minute apart inside the 24h window of
\* PlanA (the second also inside that of PlanB), one after it, and readings
\* around the 1h and the now thresholds; in the workload of assignments,
\* two readings a minute apart inside the 2d window of DueA and readings
\* inside its 1d and 12h windows
Start == 12 * Hour
\* time(hour=WEEKLY_NOTIFICATION_HOUR, minute=WEEKLY_NOTIFICATION_MINUTE), a
\* time of day in UTC: the defaults of config.py
WeeklyTime == 9 * Hour + 0 * Min
InstantsOf(w) ==
  CASE w = "plans" ->
         {Start, PlanA - 24 * Hour - 30500, PlanA - 24 * Hour + 29500,
          PlanA - 24 * Hour + 89500, PlanA - Hour - 20 * Sec,
          PlanA - Hour + 40 * Sec, PlanA - 10 * Sec, PlanA + 50 * Sec}
    [] w = "drivers" ->
         {Start, Day + WeeklyTime, PlanA - 24 * Hour + 29500,
          PlanA - Hour + Min + 500, Week + WeeklyTime, 2 * Week + WeeklyTime}
    [] OTHER ->
         {Start, DueA - 2 * Day - 30 * Sec, DueA - 2 * Day + 30 * Sec,
          DueA - Day + 30 * Sec, DueA - 12 * Hour + Min}

\* the members the commands are given by in a workload: the first two plan
\* sessions
PlannersOf(w) ==
  CASE w = "plans" -> {u \in Users : u <= 2}
    [] w = "drivers" -> {1}
    [] OTHER -> {}
CompletersOf(w) == IF w = "assignments" THEN Users ELSE {1}

\* now_utc.hour
HourOf(t) == (t % Day) \div Hour

\* the loop body of send_due_date_reminders for one member's rows: send,
\* then mark_due_date_reminder_sent
RECURSIVE SendDueRows(_, _, _, _)
SendDueRows(asg, sent, user_id, rows) ==
  IF rows = {} THEN <<asg, sent>>
  ELSE LET r == CHOOSE x \in rows : TRUE
       IN SendDueRows(mark_due_date_reminder_sent(asg, r.course_id, r.id, r.reminder_type),
                      Bump(sent, <<<<r.course_id, r.id>>, r.reminder_type, user_id>>),
                      user_id, rows \ {r})

\* send_due_date_reminders, bot.py 414-442, from the given member on: each
\* member is queried against the store as the members before left it; a
\* query that raises ends the function with the exception
RECURSIVE send_due_date_reminders(_, _, _, _, _, _)
send_due_date_reminders(asg, crs, uas, sent, now_utc, member) ==
  IF member > NumUsers THEN [raised |-> "none", asg |-> asg, sent |-> sent]
  ELSE LET res == get_pending_due_date_reminders(asg, crs, uas, now_utc, member)
       IN IF res.raised # "none"
          THEN [raised |-> res.raised, asg |-> asg, sent |-> sent]
          ELSE LET done == SendDueRows(asg, sent, member, res.rows)
               IN send_due_date_reminders(done[1], crs, uas, done[2], now_utc, member + 1)

\* check_and_send_completion_notifications, bot.py 445-476, from the given
\* member on: a member not yet notified whose week is all complete with a
\* total above 0 is sent the message and then marked
RECURSIVE check_and_send_completion_notifications(_, _, _, _, _, _)
check_and_send_completion_notifications(wcn, sent, asg, uas, monday, member) ==
  IF member > NumUsers THEN [wcn |-> wcn, sent |-> sent]
  ELSE LET result == check_week_completion(asg, uas, member, monday)
           congratulate == /\ get_week_completion_notified(wcn, member, monday) = 0
                           /\ result[1]
                           /\ result[2] > 0
       IN IF congratulate
          THEN check_and_send_completion_notifications(
                 mark_week_completion_notified(wcn, member, monday),
                 Bump(sent, <<member, week_key(monday)>>),
                 asg, uas, monday, member + 1)
          ELSE check_and_send_completion_notifications(wcn, sent, asg, uas, monday,
                                                       member + 1)

StoreIdle == UNCHANGED <<call, workload>>
WeeklyIdle == UNCHANGED weekly
\* no interactive command moves and no on_ready event arrives
DialogueIdle == UNCHANGED <<dialogue, second, ready>>

Init ==
  /\ now = Start
  /\ courses = <<>>
  /\ assignments = <<>>
  /\ study_plans = <<>>
  /\ user_assignment_status = <<>>
  /\ week_completion_notifications = <<>>
  /\ tick = NoTick
  /\ sent_work = <<>>
  /\ sent_due = <<>>
  /\ sent_congrats = <<>>
  /\ weekly = NoWeekly
  /\ call = NoCall
  /\ dialogue = NoDialogue
  /\ second = NoDialogue
  /\ ready = Ready(FALSE)
  /\ workload \in Workloads

\* the clock moves on to the next reading
Advance ==
  /\ \E t \in InstantsOf(workload) :
       /\ t > now
       /\ \A other \in InstantsOf(workload) : other > now => t <= other
       /\ now' = t
  /\ UNCHANGED <<tables, tick, sent_work, sent_due, sent_congrats>>
  /\ StoreIdle
  /\ DialogueIdle
  /\ WeeklyIdle

\* on_ready's first sync, !sync and the weekly driver's sync: the exception
\* of a failed fetch is caught by each of them
SyncCycle(fetched, failing) ==
  /\ LET synced == sync_canvas_data(courses, assignments, fetched, failing)
     IN /\ courses' = synced[1]
        /\ assignments' = synced[2]
  /\ UNCHANGED <<now, study_plans, user_assignment_status,
                 week_completion_notifications, tick, sent_work, sent_due,
                 sent_congrats>>
  /\ StoreIdle
  /\ DialogueIdle
  /\ WeeklyIdle

\* send_weekly_assignments, utils/weekly.py 92-164: the reply to the prompt
\* for an assignment of the week's listing parses to a time and the plan is
\* saved with notes None
PlanSession(user_id, akey, planned_at) ==
  LET key == <<user_id, akey[1], akey[2]>>
  IN /\ akey \in get_assignments_for_week_with_ids(assignments, courses,
                                                   monday_of(local_wall(now)))
     /\ study_plans' = upsert_study_plan(study_plans, user_id, akey[1], akey[2],
                                         planned_at, "NULL")
     /\ sent_work' = IF key \in DOMAIN study_plans
                        /\ study_plans[key].planned_at_utc # planned_at
                     THEN Forget(sent_work, key) ELSE sent_work
     /\ UNCHANGED <<now, courses, assignments, user_assignment_status,
                    week_completion_notifications, tick, sent_due, sent_congrats>>
     /\ StoreIdle
     /\ DialogueIdle
     /\ WeeklyIdle

\* !reschedule, bot.py 252-316: a session of the member's listing for the
\* week is picked and given a new time
Reschedule(user_id, key, new_planned_at) ==
  /\ key \in get_user_plans_for_week_detailed(study_plans, assignments, courses,
                                              user_id, monday_of(local_wall(now)))
  /\ study_plans' = update_study_plan_time(study_plans, user_id, key[2], key[3],
                                           new_planned_at)
  /\ sent_work' = Forget(sent_work, key)
  /\ UNCHANGED <<now, courses, assignments, user_assignment_status,
                 week_completion_notifications, tick, sent_due, sent_congrats>>
  /\ StoreIdle
  /\ DialogueIdle
  /\ WeeklyIdle

\* !complete, bot.py 175-249: an incomplete assignment of the member's
\* listing for the week is picked and marked completed
Complete(user_id, akey) ==
  /\ [key |-> akey, completed |-> 0] \in
       get_week_assignments_with_status(assignments, courses, user_assignment_status,
                                        user_id, monday_of(local_wall(now)))
  /\ user_assignment_status' =
       set_assignment_completed(user_assignment_status, user_id, akey[1], akey[2], TRUE)
  /\ UNCHANGED <<now, courses, assignments, study_plans,
                 week_completion_notifications, tick, sent_work, sent_due,
                 sent_congrats>>
  /\ StoreIdle
  /\ DialogueIdle
  /\ WeeklyIdle

\* check_reminders, bot.py 357-382: an iteration starts a loop interval
\* after the one before, reads the clock, and send_work_session_reminders
\* reads the pending reminders
TickStart ==
  /\ tick.pc = "idle"
  /\ tick.now_utc = NULL \/ now >= tick.now_utc + Min
  /\ tick' = [pc |-> "work", now_utc |-> now, prev_now_utc |-> tick.now_utc,
              reminders |-> get_pending_reminders(study_plans, assignments, courses, now),
              marking |-> {}, raised |-> tick.raised]
  /\ UNCHANGED <<now, tables, sent_work, sent_due, sent_congrats>>
  /\ StoreIdle
  /\ DialogueIdle
  /\ WeeklyIdle

\* a variant: mark_reminder_sent is called before channel.send, so the flag
\* is set whether or not the delivery succeeds
TickWorkSend_mark_first(r, delivered) ==
  /\ tick.pc = "work"
  /\ r \in tick.reminders
  /\ study_plans' = mark_reminder_sent(study_plans, r.user_id, r.course_id,
                                       r.assignment_id, r.reminder_type)
  /\ IF delivered
     THEN /\ sent_work' = Bump(sent_work, <<<<r.user_id, r.course_id, r.assignment_id>>,
                                            r.reminder_type>>)
          /\ tick' = [tick EXCEPT !.reminders = @ \ {r}]
     ELSE /\ sent_work' = sent_work
          /\ tick' = [tick EXCEPT !.pc = "idle", !.reminders = {},
                                   !.raised = "HTTPException"]
  /\ UNCHANGED <<now, courses, assignments, user_assignment_status,
                 week_completion_notifications, sent_due, sent_congrats>>
  /\ StoreIdle
  /\ DialogueIdle
  /\ WeeklyIdle

\* send_work_session_reminders, bot.py 389-411: channel.send for the next
\* reminder of the list; when it raises, the exception ends the iteration
TickWorkSend(r, delivered) ==
  /\ tick.pc = "work"
  /\ r \in tick.reminders
  /\ IF delivered
     THEN /\ sent_work' = Bump(sent_work, <<<<r.user_id, r.course_id, r.assignment_id>>,
                                            r.reminder_type>>)
          /\ tick' = [tick EXCEPT !.pc = "mark", !.reminders = @ \ {r}, !.marking = {r}]
     ELSE /\ sent_work' = sent_work
          /\ tick' = [tick EXCEPT !.pc = "idle", !.reminders = {},
                                   !.raised = "HTTPException"]
  /\ UNCHANGED <<now, tables, sent_due, sent_congrats>>
  /\ StoreIdle
  /\ DialogueIdle
  /\ WeeklyIdle

\* the mark_reminder_sent that follows a delivery
TickWorkMark ==
  /\ tick.pc = "mark"
  /\ \E r \in tick.marking :
       study_plans' = mark_reminder_sent(study_plans, r.user_id, r.course_id,
                                         r.assignment_id, r.reminder_type)
  /\ tick' = [tick EXCEPT !.pc = "work", !.marking = {}]
  /\ UNCHANGED <<now, courses, assignments, user_assignment_status,
                 week_completion_notifications, sent_work, sent_due, sent_congrats>>
  /\ StoreIdle
  /\ DialogueIdle
  /\ WeeklyIdle

\* the rest of the iteration with the week-completion check in the place of
\* the due-date step, sending to every member whose week is all complete
\* without reading or writing the notified row
TickDue_unmarked ==
  /\ tick.pc = "work"
  /\ tick.reminders = {}
  /\ LET monday == monday_of(local_wall(now))
         eligible == {u \in Users :
                        LET result == check_week_completion(assignments,
                                        user_assignment_status, u, monday)
                        IN HourOf(tick.now_utc) = 12 /\ result[1] /\ result[2] > 0}
     IN sent_congrats' =
          [k \in DOMAIN sent_congrats \cup {<<u, week_key(monday)>> : u \in eligible} |->
             Count(sent_congrats, k)
               + (IF k[1] \in eligible /\ k[2] = week_key(monday) THEN 1 ELSE 0)]
  /\ tick' = [tick EXCEPT !.pc = "idle", !.raised = "none"]
  /\ UNCHANGED <<now, tables, sent_work, sent_due>>
  /\ StoreIdle
  /\ DialogueIdle
  /\ WeeklyIdle

\* the rest of the iteration once the work-session reminders are through:
\* send_due_date_reminders and, when it returns and the hour is 12,
\* check_and_send_completion_notifications; an exception ends the iteration
TickDue ==
  /\ tick.pc = "work"
  /\ tick.reminders = {}
  /\ LET due == send_due_date_reminders(assignments, courses, user_assignment_status,
                                        sent_due, tick.now_utc, 1)
         done == IF due.raised = "none" /\ HourOf(tick.now_utc) = 12
                 THEN check_and_send_completion_notifications(
                        week_completion_notifications, sent_congrats, due.asg,
                        user_assignment_status, monday_of(local_wall(now)), 1)
                 ELSE [wcn |-> week_completion_notifications, sent |-> sent_congrats]
     IN /\ assignments' = due.asg
        /\ sent_due' = due.sent
        /\ week_completion_notifications' = done.wcn
        /\ sent_congrats' = done.sent
        /\ tick' = [tick EXCEPT !.pc = "idle", !.raised = due.raised]
  /\ UNCHANGED <<now, courses, study_plans, user_assignment_status, sent_work>>
  /\ StoreIdle
  /\ DialogueIdle
  /\ WeeklyIdle

\* a variant: the sync of the cycle is not inside a try block, so a failed
\* fetch leaves the coroutine and the loop of the driver ends
WeeklyNotification_uncaught(fetched, failing, delivered) ==
  /\ weekly.is_running
  /\ now % Day = WeeklyTime
  /\ weekly.last # now
  /\ LET monday == local_wall(now) - monday_of(local_wall(now)) < Day
         synced == IF monday
                   THEN sync_canvas_data(courses, assignments, fetched, failing)
                   ELSE <<courses, assignments>>
         failed == monday /\ failing <= Len(FetchedCourses)
     IN /\ courses' = synced[1]
        /\ assignments' = synced[2]
        /\ weekly' = [is_running |-> ~failed, last |-> now,
                      raised |-> IF monday /\ ~failed /\ ~delivered
                                 THEN {"HTTPException"} ELSE {},
                      prev_raised |-> weekly.raised]
  /\ UNCHANGED <<now, study_plans, user_assignment_status,
                 week_completion_notifications, tick, sent_work, sent_due,
                 sent_congrats>>
  /\ StoreIdle
  /\ DialogueIdle

\* weekly_notification, bot.py 323-354: a cycle at the configured time of
\* every day; on a Monday of the local clock it syncs, then posts the week's
\* listing to the channel; the exception of the sync and that of the post
\* are caught and printed
WeeklyNotification(fetched, failing, delivered) ==
  /\ weekly.is_running
  /\ now % Day = WeeklyTime
  /\ weekly.last # now
  /\ LET monday == local_wall(now) - monday_of(local_wall(now)) < Day
         synced == IF monday
                   THEN sync_canvas_data(courses, assignments, fetched, failing)
                   ELSE <<courses, assignments>>
     IN /\ courses' = synced[1]
        /\ assignments' = synced[2]
        /\ weekly' = [is_running |-> TRUE, last |-> now,
                      raised |-> IF monday
                                 THEN (IF failing <= Len(FetchedCourses)
                                       THEN {"CanvasAPIError"} ELSE {})
                                      \cup (IF delivered THEN {} ELSE {"HTTPException"})
                                 ELSE {},
                      prev_raised |-> weekly.raised]
  /\ UNCHANGED <<now, study_plans, user_assignment_status,
                 week_completion_notifications, tick, sent_work, sent_due,
                 sent_congrats>>
  /\ StoreIdle
  /\ DialogueIdle

Next ==
  \/ Advance
  \/ \E fetched \in FetchesOf(workload), failing \in FailuresOf(workload) :
       SyncCycle(fetched, failing)
  \/ \E u \in PlannersOf(workload), planned_at \in PlanTimes :
       PlanSession(u, <<1, 1>>, planned_at)
  \/ \E u \in PlannersOf(workload), planned_at \in PlanTimes :
       Reschedule(u, <<u, 1, 1>>, planned_at)
  \/ \E u \in CompletersOf(workload) : Complete(u, <<1, 1>>)
  \/ TickStart
  \/ \E r \in tick.reminders, delivered \in BOOLEAN : TickWorkSend(r, delivered)
  \/ TickWorkMark
  \/ TickDue
  \/ \E fetched \in FetchesOf(workload), failing \in FailuresOf(workload),
        delivered \in BOOLEAN :
       WeeklyNotification(fetched, failing, delivered)

Spec == Init /\ [][Next]_vars

----------------------------------------------------------------------------
(* The reminder driver at its cadence: check_reminders runs one iteration  *)
(* per loop interval, each iteration ends within the interval, every       *)
(* delivery succeeds and a saved plan keeps its planned_at                 *)

\* the offset of the iterations within the minute
LivePhases == {0, 500, 59500}

\* the minutes of the stretches around the thresholds before PlanA that the
\* clock is followed through, two loop intervals to either side; between
\* the stretches no window of PlanA or PlanB is open
LiveReach == 2
LiveMinutes ==
  {base + k * Min : base \in {PlanA - 24 * Hour, PlanA - Hour, PlanA},
                    k \in (0 - LiveReach)..LiveReach}
LiveStart == PlanA - 24 * Hour - LiveReach * Min

\* the clock readings of the iterations that follow the one at t
LaterReadings(t) == {m + (t % Min) : m \in {x \in LiveMinutes : x > t - (t % Min)}}

InitLive ==
  /\ now \in {LiveStart + phase : phase \in LivePhases}
  /\ courses = <<>>
  /\ assignments = <<>>
  /\ study_plans = <<>>
  /\ user_assignment_status = <<>>
  /\ week_completion_notifications = <<>>
  /\ tick = NoTick
  /\ sent_work = <<>>
  /\ sent_due = <<>>
  /\ sent_congrats = <<>>
  /\ weekly = NoWeekly
  /\ call = NoCall
  /\ dialogue = NoDialogue
  /\ second = NoDialogue
  /\ ready = Ready(FALSE)
  /\ workload = "plans"

\* the loop interval passes once the iteration of this reading has ended
AdvanceLive ==
  /\ tick.pc = "idle"
  /\ tick.now_utc = now
  /\ \E t \in LaterReadings(now) :
       /\ \A other \in LaterReadings(now) : t <= other
       /\ now' = t
  /\ UNCHANGED <<tables, tick, sent_work, sent_due, sent_congrats>>
  /\ StoreIdle
  /\ DialogueIdle
  /\ WeeklyIdle

\* a plan is saved for an assignment that has none yet, or saved again with
\* the time it has
PlanSessionLive(user_id, akey, planned_at) ==
  /\ <<user_id, akey[1], akey[2]>> \in DOMAIN study_plans =>
       study_plans[<<user_id, akey[1], akey[2]>>].planned_at_utc = planned_at
  /\ PlanSession(user_id, akey, planned_at)

NextLive ==
  \/ AdvanceLive
  \/ SyncCycle(FetchFirst, NoFailure)
  \/ \E u \in PlannersOf(workload), planned_at \in PlanTimes :
       PlanSessionLive(u, <<1, 1>>, planned_at)
  \/ TickStart
  \/ \E r \in tick.reminders : TickWorkSend(r, TRUE)
  \/ TickWorkMark
  \/ TickDue

\* tasks.loop keeps scheduling iterations and every await of an iteration
\* returns
FairLive ==
  /\ WF_vars(AdvanceLive)
  /\ WF_vars(TickStart)
  /\ WF_vars(\E r \in tick.reminders : TickWorkSend(r, TRUE))
  /\ WF_vars(TickWorkMark)
  /\ WF_vars(TickDue)

SpecLive == InitLive /\ [][NextLive]_vars /\ FairLive

----------------------------------------------------------------------------
(* Properties of the store functions, checked under SpecStore *)

\* the flag columns of study_plans and of assignments (init_db)
PlanFlagColumns == {"reminder_24h_sent", "reminder_1h_sent", "reminder_now_sent"}
DueFlagColumns == {"due_reminder_2d_sent", "due_reminder_1d_sent", "due_reminder_12h_sent"}

\* the row the last call found under its key
BeforeRow == CHOOSE b \in call.before : TRUE

\* C3: upsert_study_plan on a key that already has a plan overwrites
\* planned_at and notes and leaves all three work-session flags unsent.
C3_UpsertStudyPlanResetsFlags ==
  (call.op = "upsert_study_plan" /\ call.before # {}) =>
    LET row == study_plans[call.args[1]]
    IN /\ row.planned_at_utc = call.args[2]
       /\ row.notes = call.args[3]
       /\ \A col \in PlanFlagColumns : row[col] = 0

\* C4: after update_study_plan_time on an existing plan, planned_at is the
\* new value and all three work-session flags are unsent, whatever they were.
C4_UpdateStudyPlanTimeResetsFlags ==
  (call.op = "update_study_plan_time" /\ call.before # {}) =>
    LET row == study_plans[call.args[1]]
    IN /\ row.planned_at_utc = call.args[2]
       /\ \A col \in PlanFlagColumns : row[col] = 0

\* a plan with all three flags set was moved to another time
C4_Witness ==
  /\ call.op = "update_study_plan_time"
  /\ call.before # {}
  /\ \A col \in PlanFlagColumns : BeforeRow[col] = 1
  /\ BeforeRow.planned_at_utc # call.args[2]
  /\ study_plans[call.args[1]].planned_at_utc = call.args[2]

\* a plan is inside the window of a threshold when planned_at lies between
\* the two ends as the claim states them, at full resolution
InExactWorkWindow(planned_at, now_utc, reminder_type) ==
  /\ now_utc + WorkDelta(reminder_type) - Min <= planned_at
  /\ planned_at <= now_utc + WorkDelta(reminder_type) + Min

\* the same with both ends cut to the whole second, as they are written
\* into the query
InStoredWorkWindow(planned_at, now_utc, reminder_type) ==
  /\ ((now_utc + WorkDelta(reminder_type) - Min) \div Sec) * Sec <= planned_at
  /\ planned_at <= ((now_utc + WorkDelta(reminder_type) + Min) \div Sec) * Sec

WorkReminderOf(k, reminder_type) ==
  [user_id |-> k[1], course_id |-> k[2], assignment_id |-> k[3],
   planned_at_utc |-> study_plans[k].planned_at_utc, reminder_type |-> reminder_type]

\* C7 as stated: get_pending_reminders(now) returns, tagged with its
\* threshold, every plan whose planned_at lies in [now + d - 1min,
\* now + d + 1min] and whose flag for d is unsent, and no other plan.
C7_PendingRemindersExactWindow ==
  call.op = "get_pending_reminders" =>
    call.rows = {WorkReminderOf(x[1], x[2]) : x \in
                   {y \in (DOMAIN study_plans) \X WorkTags :
                      /\ InExactWorkWindow(study_plans[y[1]].planned_at_utc,
                                           call.args[1], y[2])
                      /\ study_plans[y[1]][WorkColumn(y[2])] = 0}}

\* C7 amended: the same with both ends of the window cut down to the whole
\* second: the plans with floor(now + d - 1min) <= planned_at <=
\* floor(now + d + 1min) and the flag for d unsent, and no other plan.
C7_PendingRemindersStoredWindow ==
  call.op = "get_pending_reminders" =>
    call.rows = {WorkReminderOf(x[1], x[2]) : x \in
                   {y \in (DOMAIN study_plans) \X WorkTags :
                      /\ InStoredWorkWindow(study_plans[y[1]].planned_at_utc,
                                            call.args[1], y[2])
                      /\ study_plans[y[1]][WorkColumn(y[2])] = 0}}

\* a query at an instant with a fraction of a second that returned a plan
\* while another plan inside the window was held back by its flag
C7_Witness ==
  /\ call.op = "get_pending_reminders"
  /\ call.args[1] % Sec # 0
  /\ call.rows # {}
  /\ \E k \in DOMAIN study_plans, tag \in WorkTags :
       /\ InStoredWorkWindow(study_plans[k].planned_at_utc, call.args[1], tag)
       /\ study_plans[k][WorkColumn(tag)] = 1

\* C9: upsert_assignments on a key that exists overwrites name, due_at,
\* week_number, html_url and submitted and leaves the three due-date flags
\* as they were, also when due_at changes.
C9_UpsertAssignmentsKeepsFlags ==
  (call.op = "upsert_assignments" /\ call.before # {}) =>
    LET item == call.args[1][1]
        row == assignments[<<call.args[2], item.id>>]
    IN /\ row.name = item.name
       /\ row.due_at = IF item.due_at = NULL THEN NULL
                       ELSE (item.due_at \div Sec) * Sec
       /\ row.week_number = IF item.due_at = NULL THEN NULL
                            ELSE EpochIsoWeek + (item.due_at \div Week)
       /\ row.html_url = item.html_url
       /\ row.submitted = IF item.has_submitted_submissions THEN 1 ELSE 0
       /\ \A col \in DueFlagColumns : row[col] = BeforeRow[col]

\* an assignment with a due-date flag set was synced again with another
\* due_at
C9_Witness ==
  /\ call.op = "upsert_assignments"
  /\ call.before # {}
  /\ BeforeRow.due_reminder_2d_sent = 1
  /\ BeforeRow.due_at # NULL
  /\ assignments[<<call.args[2], call.args[1][1].id>>].due_at
       \notin {NULL, BeforeRow.due_at}

\* the due-date reminders the selection rule picks for a user at an instant
InDueWindow(due_at, now_utc, reminder_type) ==
  /\ now_utc + DueDelta(reminder_type) - Min <= due_at
  /\ due_at <= now_utc + DueDelta(reminder_type) + Min

InDisplayWeekOf(due_at, now_utc) ==
  LET monday == monday_of(local_wall(now_utc))
  IN /\ monday - get_local_tz <= due_at
     /\ due_at <= monday + Week - Sec - get_local_tz

DueReminderOf(k, reminder_type) ==
  [id |-> k[2], course_id |-> k[1], due_at |-> assignments[k].due_at,
   reminder_type |-> reminder_type]

\* C6: get_pending_due_date_reminders(now, user) returns exactly the
\* assignments, tagged with the threshold d, whose due_at is within one
\* minute of now + d and inside the display week of now, whose flag for d
\* is unsent and which this user has not completed.
C6_PendingDueDateRemindersSelection ==
  call.op = "get_pending_due_date_reminders" =>
    /\ call.raised = "none"
    /\ call.rows = {DueReminderOf(x[1], x[2]) : x \in
                      {y \in (DOMAIN assignments) \X DueTags :
                         /\ InDueWindow(assignments[y[1]].due_at, call.args[1], y[2])
                         /\ InDisplayWeekOf(assignments[y[1]].due_at, call.args[1])
                         /\ assignments[y[1]][DueColumn(y[2])] = 0
                         /\ CompletedBy(user_assignment_status, call.args[2], y[1]) = 0}}

\* C8: once the flag of a threshold is set on an assignment, a query made
\* afterwards returns no reminder of that threshold for that assignment, to
\* any user.
C8_MarkedDueReminderNotReturned ==
  call.op = "get_pending_due_date_reminders" =>
    \A r \in call.rows :
      assignments[<<r.course_id, r.id>>][DueColumn(r.reminder_type)] = 0

\* a query inside the window of a threshold whose flag is set, for a user
\* who has not completed the assignment
C8_Witness ==
  /\ call.op = "get_pending_due_date_reminders"
  /\ \E k \in DOMAIN assignments, tag \in DueTags :
       /\ assignments[k][DueColumn(tag)] = 1
       /\ InDueWindow(assignments[k].due_at, call.args[1], tag)
       /\ InDisplayWeekOf(assignments[k].due_at, call.args[1])
       /\ CompletedBy(user_assignment_status, call.args[2], k) = 0

\* C10: a mark-sent call sets the one named flag of the one row of its key
\* and changes no other flag, row or table; on a flag already set it
\* changes nothing; it never raises.
C10_MarkSentFrame ==
  [][/\ call'.op = "mark_reminder_sent" =>
          /\ call'.raised = "none"
          /\ DOMAIN study_plans' = DOMAIN study_plans
          /\ \A k \in DOMAIN study_plans :
               \A col \in DOMAIN study_plans[k] :
                 study_plans'[k][col] =
                   IF k = call'.args[1] /\ col = WorkColumn(call'.args[2])
                   THEN 1 ELSE study_plans[k][col]
          /\ UNCHANGED <<courses, assignments, user_assignment_status,
                         week_completion_notifications>>
     /\ call'.op = "mark_due_date_reminder_sent" =>
          /\ call'.raised = "none"
          /\ DOMAIN assignments' = DOMAIN assignments
          /\ \A k \in DOMAIN assignments :
               \A col \in DOMAIN assignments[k] :
                 assignments'[k][col] =
                   IF k = call'.args[1] /\ col = DueColumn(call'.args[2])
                   THEN 1 ELSE assignments[k][col]
          /\ UNCHANGED <<courses, study_plans, user_assignment_status,
                         week_completion_notifications>>]_vars

\* a due-date flag that was already set was marked again while the same
\* assignment id exists in another course with that flag unset
C10_Witness ==
  /\ call.op = "mark_due_date_reminder_sent"
  /\ call.before # {}
  /\ DueColumn(call.args[2]) \in DueFlagColumns
  /\ BeforeRow[DueColumn(call.args[2])] = 1
  /\ \E k \in DOMAIN assignments :
       /\ k # call.args[1]
       /\ k[2] = call.args[1][2]
       /\ assignments[k][DueColumn(call.args[2])] = 0

\* C5: a flag that is set stays set in every step, except that a step that
\* re-plans a study plan may leave all three flags of that plan unset; no
\* row that holds flags is removed.
C5_FlagsStaySet ==
  [][/\ \A k \in DOMAIN study_plans :
          /\ k \in DOMAIN study_plans'
          /\ \A col \in PlanFlagColumns :
               (study_plans[k][col] = 1 /\ study_plans'[k][col] = 0) =>
                 /\ call'.op \in {"update_study_plan_time", "upsert_study_plan"}
                 /\ call'.args[1] = k
                 /\ \A other \in PlanFlagColumns : study_plans'[k][other] = 0
     /\ \A k \in DOMAIN assignments :
          /\ k \in DOMAIN assignments'
          /\ \A col \in DueFlagColumns :
               assignments[k][col] = 1 => assignments'[k][col] = 1]_vars

\* a plan with flags set was re-planned while another plan and an
\* assignment had a flag set
C5_Witness ==
  /\ call.op = "update_study_plan_time"
  /\ call.before # {}
  /\ BeforeRow.reminder_24h_sent = 1
  /\ \E k \in DOMAIN study_plans :
       k # call.args[1] /\ study_plans[k].reminder_1h_sent = 1
  /\ \E k \in DOMAIN assignments : assignments[k].due_reminder_2d_sent = 1

----------------------------------------------------------------------------
(* Properties of the reminder driver, checked under Spec *)

\* C1: while the planned_at of a study plan is not given anew, the
\* work-session reminder of each threshold is delivered for the plan at most
\* once, whatever ticks, plan saves, completions and sync cycles run.
C1_WorkReminderAtMostOnce ==
  \A k \in DOMAIN sent_work : sent_work[k] <= 1

\* two iterations a minute apart both read the clock inside the 24h window
\* of a plan whose 24h reminder was delivered and marked
C1_Witness ==
  /\ tick.pc = "idle"
  /\ \E k \in DOMAIN study_plans :
       /\ InStoredWorkWindow(study_plans[k].planned_at_utc, tick.prev_now_utc, "24h")
       /\ InStoredWorkWindow(study_plans[k].planned_at_utc, tick.now_utc, "24h")
       /\ study_plans[k].reminder_24h_sent = 1
       /\ Count(sent_work, <<k, "24h">>) = 1

\* C2: the due-date reminder of each threshold of each assignment is
\* delivered to each user at most once, also when two iterations in a row
\* read the clock inside the window.
C2_DueReminderAtMostOnce ==
  \A k \in DOMAIN sent_due : sent_due[k] <= 1

\* two iterations a minute apart both read the clock inside the 2d window
\* of an assignment of the week that a member has not completed
C2_Witness ==
  /\ tick.pc = "idle"
  /\ tick.prev_now_utc # NULL
  /\ \E k \in DOMAIN assignments, u \in Users :
       /\ InDueWindow(assignments[k].due_at, tick.prev_now_utc, "2d")
       /\ InDueWindow(assignments[k].due_at, tick.now_utc, "2d")
       /\ InDisplayWeekOf(assignments[k].due_at, tick.now_utc)
       /\ CompletedBy(user_assignment_status, u, k) = 0

----------------------------------------------------------------------------
(* Properties of the reminder driver at its cadence, checked under SpecLive *)

\* C11: a plan whose flag for a threshold is unsent while the clock is still
\* more than a minute before planned_at minus the threshold has the reminder
\* of that threshold delivered by some iteration.
C11_WorkReminderEventuallySent ==
  \A k \in PlanKeys, tag \in WorkTags :
    (/\ k \in DOMAIN study_plans
     /\ study_plans[k][WorkColumn(tag)] = 0
     /\ now < study_plans[k].planned_at_utc - WorkDelta(tag) - Min)
    ~> (Count(sent_work, <<k, tag>>) >= 1)

\* the 1h reminder of a plan was delivered and marked by an iteration that
\* read the clock at a fraction of a second inside the window
C11_Witness ==
  /\ tick.pc = "idle"
  /\ tick.now_utc % Sec # 0
  /\ \E k \in DOMAIN study_plans :
       /\ InStoredWorkWindow(study_plans[k].planned_at_utc, tick.now_utc, "1h")
       /\ study_plans[k].reminder_1h_sent = 1
       /\ Count(sent_work, <<k, "1h">>) = 1

----------------------------------------------------------------------------
(* Properties of the week-completion check, checked under Spec *)

\* a member not yet notified for the week of the clock whose week is all
\* complete with a total above 0
AllCompleteWeek(user_id) ==
  LET result == check_week_completion(assignments, user_assignment_status, user_id,
                                      monday_of(local_wall(now)))
  IN result[1] /\ result[2] > 0

Notified(user_id) ==
  get_week_completion_notified(week_completion_notifications, user_id,
                               monday_of(local_wall(now))) = 1

\* C12: the week-completion message is delivered to each user at most once
\* for each week, however many iterations run in hour 12 and on however
\* many days of the week.
C12_CongratulationAtMostOnce ==
  \A k \in DOMAIN sent_congrats : sent_congrats[k] <= 1

\* two iterations in a row read the clock in hour 12, on different days of
\* one week, and ended with a member's week all complete
C12_Witness ==
  /\ tick.pc = "idle"
  /\ tick.prev_now_utc # NULL
  /\ HourOf(tick.prev_now_utc) = 12
  /\ HourOf(tick.now_utc) = 12
  /\ tick.now_utc - tick.prev_now_utc >= Day
  /\ monday_of(local_wall(tick.prev_now_utc)) = monday_of(local_wall(tick.now_utc))
  /\ now = tick.now_utc
  /\ \E u \in Users : AllCompleteWeek(u)

\* C13: the iteration that reads the clock in hour 12 sends the
\* week-completion message to every member who is not yet notified and whose
\* week is all complete with a total above 0, and marks the member notified;
\* it sends nothing to a member whose week is empty or incomplete.
C13_CongratulatedInHour12 ==
  [][(/\ tick.pc = "work"
      /\ tick.reminders = {}
      /\ tick'.pc = "idle"
      /\ HourOf(tick.now_utc) = 12) =>
       \A u \in Users :
         LET key == <<u, week_key(monday_of(local_wall(now)))>>
         IN /\ (AllCompleteWeek(u) /\ ~Notified(u)) =>
                 /\ Count(sent_congrats', key) = Count(sent_congrats, key) + 1
                 /\ get_week_completion_notified(week_completion_notifications', u,
                                                 monday_of(local_wall(now))) = 1
            /\ ~AllCompleteWeek(u) =>
                 Count(sent_congrats', key) = Count(sent_congrats, key)]_vars

----------------------------------------------------------------------------
(* Properties of the identity of an assignment *)

\* the calls that change what is stored for one (course_id, id) pair, and
\* the pair of such a call
PairOps == {"upsert_assignments", "upsert_study_plan", "mark_reminder_sent",
            "update_study_plan_time", "mark_due_date_reminder_sent",
            "set_assignment_completed"}
PairOf(c) ==
  CASE c.op = "upsert_assignments" -> <<c.args[2], c.args[1][1].id>>
    [] c.op = "mark_due_date_reminder_sent" -> c.args[1]
    [] OTHER -> <<c.args[1][2], c.args[1][3]>>

\* the rows stored for the same assignment id under another course are in
\* the table after the step as they were before it; n is the place of
\* course_id in the key of the table
TwinsKept(old, new, pair, n) ==
  \A k \in DOMAIN old \cup DOMAIN new :
    (k[n + 1] = pair[2] /\ k[n] # pair[1]) =>
      (k \in DOMAIN old /\ k \in DOMAIN new /\ new[k] = old[k])

\* C14: an assignment is identified by (course_id, id): a call that changes
\* the attributes, flags, plans or completion status of one pair leaves
\* every row of the same id under another course as it was, and the week's
\* status listing reports for each pair the status row of that very pair
C14_IdentityIsCourseAndId ==
  [][/\ call'.op \in PairOps =>
          /\ TwinsKept(assignments, assignments', PairOf(call'), 1)
          /\ TwinsKept(study_plans, study_plans', PairOf(call'), 2)
          /\ TwinsKept(user_assignment_status, user_assignment_status',
                       PairOf(call'), 2)
     /\ call'.op = "get_week_assignments_with_status" =>
          \A r \in call'.rows :
            (r.completed = 1) <=>
              (/\ <<call'.args[1], r.key[1], r.key[2]>> \in DOMAIN user_assignment_status
               /\ user_assignment_status[<<call'.args[1], r.key[1], r.key[2]>>].completed = 1)
    ]_vars

\* assignment 1 of course 1 is upserted again while assignment 1 of course 2
\* is stored with other attributes
C14_Witness ==
  /\ call.op = "upsert_assignments"
  /\ call.before # {}
  /\ PairOf(call) = <<1, 1>>
  /\ <<2, 1>> \in DOMAIN assignments
  /\ assignments[<<2, 1>>] # assignments[<<1, 1>>]

----------------------------------------------------------------------------
(* Properties of the completion status *)

\* what get_week_assignments_with_status reports to a user in the stored
\* state and in the state after the step
StatusListing(user_id, monday) ==
  get_week_assignments_with_status(assignments, courses, user_assignment_status,
                                   user_id, monday)
StatusListingAfter(user_id, monday) ==
  get_week_assignments_with_status(assignments', courses', user_assignment_status',
                                   user_id, monday)

\* C15: completion status is per user: set_assignment_completed(u, c, a, x)
\* changes the week's status listing of no other user, changes that of u in
\* no other pair than (c, a), where it reports x, and a user without a
\* status row for a pair is reported as not completed
C15_CompletionStatusPerUser ==
  [][/\ call'.op = "set_assignment_completed" =>
          \A monday \in QueryMondays :
            /\ \A v \in Users \ {call'.args[1][1]} :
                 StatusListingAfter(v, monday) = StatusListing(v, monday)
            /\ \A r \in StatusListingAfter(call'.args[1][1], monday) :
                 IF r.key = PairOf(call')
                 THEN r.completed = (IF call'.args[2] THEN 1 ELSE 0)
                 ELSE r \in StatusListing(call'.args[1][1], monday)
     /\ call'.op = "get_week_assignments_with_status" =>
          \A r \in call'.rows :
            <<call'.args[1], r.key[1], r.key[2]>> \notin DOMAIN user_assignment_status
              => r.completed = 0
    ]_vars

\* user 1 has just marked an assignment of the week complete and user 2
\* has no status row for it
C15_Witness ==
  /\ call.op = "set_assignment_completed"
  /\ call.args = <<(<<1, 1, 1>>), TRUE>>
  /\ <<2, 1, 1>> \notin DOMAIN user_assignment_status
  /\ \E r \in StatusListing(1, monday_of(local_wall(12 * Hour))) :
       r.key = <<1, 1>> /\ r.completed = 1
  /\ \E r \in StatusListing(2, monday_of(local_wall(12 * Hour))) :
       r.key = <<1, 1>> /\ r.completed = 0

----------------------------------------------------------------------------
(* Properties of a sync cycle *)

\* the tables as they were before the recorded sync cycle
BeforeSync == CHOOSE b \in call.before : TRUE

\* C16: a sync cycle creates, deletes and modifies no row of study_plans,
\* user_assignment_status and week_completion_notifications, whatever is
\* fetched and wherever the fetch fails
C16_SyncKeepsUserData ==
  [][call'.op = "sync_canvas_data" =>
       /\ study_plans' = study_plans
       /\ user_assignment_status' = user_assignment_status
       /\ week_completion_notifications' = week_completion_notifications
    ]_vars

\* a cycle has rewritten an assignment that has a plan, a status row and a
\* member notified for its week
C16_Witness ==
  /\ call.op = "sync_canvas_data"
  /\ <<1, 1>> \in DOMAIN BeforeSync.assignments
  /\ assignments[<<1, 1>>] # BeforeSync.assignments[<<1, 1>>]
  /\ <<1, 1, 1>> \in DOMAIN study_plans
  /\ <<1, 1, 1>> \in DOMAIN user_assignment_status
  /\ week_completion_notifications # <<>>

\* the rows a table of assignments holds for one course
RowsOfCourse(asg, course_id) ==
  [k \in {x \in DOMAIN asg : x[1] = course_id} |-> asg[k]]

\* the courses whose assignments a cycle failing at the given place has
\* upserted
CoursesReached(failing) ==
  {FetchedCourses[j].id : j \in {x \in 1..Len(FetchedCourses) : x < failing}}

\* C18 as stated: a sync cycle that ends with a fetch error leaves courses
\* and assignments exactly as they were before the cycle
C18_FailedSyncLeavesStore ==
  [][(call'.op = "sync_canvas_data" /\ call'.args[2] <= Len(FetchedCourses)) =>
       /\ courses' = courses
       /\ assignments' = assignments
    ]_vars

\* C18 amended: a sync cycle that ends with a fetch error leaves courses
\* and assignments as they were when the failed fetch is that of the
\* courses; when it is that of a course's assignments, no row is deleted and
\* only the assignments of the courses fetched before it may differ
C18_FailedSyncLeavesUnreached ==
  [][(call'.op = "sync_canvas_data" /\ call'.args[2] <= Len(FetchedCourses)) =>
       /\ call'.args[2] = 0 => (courses' = courses /\ assignments' = assignments)
       /\ DOMAIN courses \subseteq DOMAIN courses'
       /\ DOMAIN assignments \subseteq DOMAIN assignments'
       /\ \A k \in DOMAIN assignments' :
            k[1] \notin CoursesReached(call'.args[2]) =>
              (k \in DOMAIN assignments /\ assignments'[k] = assignments[k])
    ]_vars

\* a cycle on an empty store has failed at the first course's assignments
\* and the courses are stored
C18_Witness ==
  /\ call.op = "sync_canvas_data"
  /\ call.args[2] = 1
  /\ BeforeSync.courses = <<>>
  /\ courses # <<>>
  /\ assignments = <<>>

\* C19: when the fetch of the j-th course's assignments fails, the upsert of
\* all courses and the assignment upserts of courses 1..j-1 are in the
\* store and the assignments of courses j..n are as they were
C19_FailedSyncKeepsPartialState ==
  [][(/\ call'.op = "sync_canvas_data"
      /\ call'.args[2] \in 1..Len(FetchedCourses)) =>
       /\ courses' = upsert_courses(courses, FetchedCourses)
       /\ \A j \in 1..Len(FetchedCourses) :
            LET course_id == FetchedCourses[j].id
            IN RowsOfCourse(assignments', course_id) =
                 IF j < call'.args[2]
                 THEN RowsOfCourse(upsert_assignments(assignments, call'.args[1][j],
                                                      course_id), course_id)
                 ELSE RowsOfCourse(assignments, course_id)
       /\ DOMAIN assignments' \subseteq
            DOMAIN assignments \cup {k \in AKeys : k[1] \in CoursesReached(call'.args[2])}
    ]_vars

\* the cycle failed at the second course after it rewrote assignment 1 of
\* the first: that row holds the fetched title and assignment 1 of course 2
\* is the row stored before, which the fetch would have rewritten
C19_Witness ==
  /\ call.op = "sync_canvas_data"
  /\ call.args = <<FetchRevised, 2>>
  /\ <<1, 1>> \in DOMAIN BeforeSync.assignments
  /\ assignments[<<1, 1>>] # BeforeSync.assignments[<<1, 1>>]
  /\ <<2, 1>> \in DOMAIN assignments
  /\ assignments[<<2, 1>>] = BeforeSync.assignments[<<2, 1>>]
  /\ assignments[<<2, 1>>] # upsert_assignments(assignments, <<ItemFirst>>, 2)[<<2, 1>>]

----------------------------------------------------------------------------
(* Properties of the week's completion count *)

\* the assignments whose due_at reads, on the local wall clock, a time of
\* the seven days from the Monday on
DueInWeek(monday) ==
  {k \in DOMAIN assignments :
     /\ assignments[k].due_at # NULL
     /\ monday <= local_wall(assignments[k].due_at)
     /\ local_wall(assignments[k].due_at) < monday + Week}

\* those of them the user has marked complete
DoneInWeek(user_id, monday) ==
  {k \in DueInWeek(monday) :
     /\ <<user_id, k[1], k[2]>> \in DOMAIN user_assignment_status
     /\ user_assignment_status[<<user_id, k[1], k[2]>>].completed = 1}

\* C20: check_week_completion(user, weekStart) returns (allComplete, total,
\* completed): total is the number of assignments due in the week, the same
\* for every user; completed is the number of those this user has marked
\* complete and is at most total; allComplete is true exactly when
\* completed = total; the result is (TRUE, 0, 0) when none is due
C20_WeekCompletionCounts ==
  call.op = "check_week_completion" =>
    LET res     == CHOOSE r \in call.rows : TRUE
        user_id == call.args[1]
        monday  == call.args[2]
    IN /\ res[2] = Cardinality(DueInWeek(monday))
       /\ res[3] = Cardinality(DoneInWeek(user_id, monday))
       /\ res[3] <= res[2]
       /\ res[1] <=> (res[3] = res[2])
       /\ DueInWeek(monday) = {} => res = <<TRUE, 0, 0>>
       /\ \A v \in Users :
            check_week_completion(assignments, user_assignment_status, v, monday)[2]
              = res[2]

\* two assignments are due in the week, the user has completed one of them
\* and the other user none
C20_Witness ==
  /\ call.op = "check_week_completion"
  /\ call.rows = {<<FALSE, 2, 1>>}
  /\ \E v \in Users : DoneInWeek(v, call.args[2]) = {}

----------------------------------------------------------------------------
(* Properties of the periodic drivers *)

\* C17: an exception raised inside an iteration of check_reminders or a
\* cycle of weekly_notification is caught: the driver keeps running, the
\* iteration or cycle is over, and whatever the last one raised, the next
\* iteration starts once a loop interval has passed and the next cycle at
\* the next configured time
C17_DriversSurviveExceptions ==
  /\ weekly.is_running
  /\ tick.pc \in {"idle", "work", "mark"}
  /\ (tick.pc = "idle" /\ tick.raised # "none" /\ now >= tick.now_utc + Min)
       => ENABLED TickStart
  /\ (tick.pc # "idle" /\ tick.raised # "none") => tick.now_utc > tick.prev_now_utc
  /\ (weekly.raised # {} /\ now % Day = WeeklyTime /\ now > weekly.last)
       => ENABLED (\E fetched \in FetchesOf(workload), failing \in FailuresOf(workload),
                      delivered \in BOOLEAN :
                     WeeklyNotification(fetched, failing, delivered))

\* an iteration is running after one that a failed delivery ended, and a
\* cycle has run after one that caught the exception of the sync and that
\* of the post
C17_Witness ==
  /\ tick.pc = "work"
  /\ tick.raised = "HTTPException"
  /\ tick.prev_now_utc # NULL
  /\ weekly.prev_raised = {"CanvasAPIError", "HTTPException"}
  /\ weekly.last = now

----------------------------------------------------------------------------
(* Properties of the sent flags against reschedules *)

\* C30: a sent flag refers to the plan's current planned_at: whenever the
\* flag of a plan for a threshold is set, a reminder of that threshold has
\* been delivered for the planned_at the plan holds now, also when a
\* reschedule runs between an iteration's read of the pending reminders
\* and its mark_reminder_sent
C30_FlagRefersToCurrentPlannedAt ==
  \A k \in DOMAIN study_plans : \A tag \in WorkTags :
    study_plans[k][WorkColumn(tag)] = 1 => Count(sent_work, <<k, tag>>) >= 1

----------------------------------------------------------------------------
(* Properties of the tolerance window at the cadence, checked under SpecLive *)

\* C28: at the one-minute cadence the window of a threshold, taken without
\* the sent flag, holds the planned_at of a plan at the reading of at most
\* one iteration: never at the readings of two iterations in a row
C28_WindowMatchesOneTick ==
  \A k \in DOMAIN study_plans : \A tag \in WorkTags :
    (tick.prev_now_utc # NULL /\ tick.now_utc = tick.prev_now_utc + Min) =>
      ~ (/\ InStoredWorkWindow(study_plans[k].planned_at_utc, tick.prev_now_utc, tag)
         /\ InStoredWorkWindow(study_plans[k].planned_at_utc, tick.now_utc, tag))

----------------------------------------------------------------------------
(* Properties of a threshold that was missed, checked under Spec *)

\* the reminders delivered by the step
DeliveredInStep ==
  {r \in tick.reminders :
     Count(sent_work', <<<<r.user_id, r.course_id, r.assignment_id>>, r.reminder_type>>)
       > Count(sent_work, <<<<r.user_id, r.course_id, r.assignment_id>>, r.reminder_type>>)}

\* C29 as stated: a reminder is delivered only when an iteration has read
\* the clock within one minute of planned_at - d; the readings of the
\* iterations are among the instants the clock of the workload takes
C29_SentOnlyWithinOneMinute ==
  [][\A r \in DeliveredInStep :
       \E t \in InstantsOf(workload) :
         /\ t <= tick.now_utc
         /\ InExactWorkWindow(r.planned_at_utc, t, r.reminder_type)]_vars

\* C29 amended: no late catch-up: a reminder is delivered only by an
\* iteration whose own reading of the clock has planned_at inside the
\* window with both ends cut to the whole second; a threshold whose window
\* no iteration has read the clock in is not made up for by a later one
C29_SentOnlyInsideStoredWindow ==
  [][\A r \in DeliveredInStep :
       InStoredWorkWindow(r.planned_at_utc, tick.now_utc, r.reminder_type)]_vars

\* an iteration has run to its end at a reading past the 24h window of a
\* plan whose 24h flag is unsent; nothing was delivered for it
C29_Witness ==
  /\ tick.pc = "idle"
  /\ tick.now_utc = now
  /\ tick.raised = "NameError"
  /\ \E k \in DOMAIN study_plans :
       /\ study_plans[k].reminder_24h_sent = 0
       /\ tick.prev_now_utc # NULL
       /\ tick.prev_now_utc < study_plans[k].planned_at_utc - 24 * Hour - 2 * Min
       /\ tick.now_utc > study_plans[k].planned_at_utc - 24 * Hour + 2 * Min
       /\ Count(sent_work, <<k, "24h">>) = 0
       /\ Count(sent_work, <<k, "1h">>) = 1

----------------------------------------------------------------------------
(* The helpers of utils/datetime_utils.py and bot.py on written timestamps *)
(* and replies, applied one call at a time to drawn inputs                 *)

\* an ISO-8601 text: the date and time of day as written (whole seconds),
\* the fractional digits as milliseconds (NULL when none are written) and
\* the suffix ("Z", an offset, or "none" for a text without one)
IsoSuffixes == {"Z", "+00:00", "-05:00", "none"}
IsoTexts ==
  [date_time : {0, PlanA, DueA, Week - Sec},
   frac : {NULL, 0, 1, 500, 999},
   suffix : IsoSuffixes]

\* the texts the store keeps: UTC, whole seconds, "Z"
IsCanonical(s) == s.frac = NULL /\ s.suffix = "Z"

\* value.replace("Z", "+00:00")
ReplaceZ(s) == IF s.suffix = "Z" THEN [s EXCEPT !.suffix = "+00:00"] ELSE s

\* the utcoffset an offset suffix denotes
OffsetOf(suffix) == IF suffix = "-05:00" THEN 0 - 5 * Hour ELSE 0

\* datetime.fromisoformat: the wall-clock reading with its fraction, aware
\* when the text carries an offset
fromisoformat(s) ==
  [wall |-> s.date_time + (IF s.frac = NULL THEN 0 ELSE s.frac),
   aware |-> s.suffix # "none",
   utcoffset |-> OffsetOf(s.suffix)]

\* parse_canvas_datetime on a text: "Z" is normalised, the text is parsed,
\* and a naive result is taken as UTC
parse_canvas_datetime_text(value) ==
  LET dt == fromisoformat(ReplaceZ(value))
  IN IF dt.aware THEN dt ELSE [dt EXCEPT !.aware = TRUE, !.utcoffset = 0]

\* dt.astimezone(timezone.utc)
astimezone_utc(dt) == [wall |-> dt.wall - dt.utcoffset, aware |-> TRUE, utcoffset |-> 0]

\* a variant: isoformat() without timespec keeps the fraction
to_utc_iso_z_text_keeps_fraction(dt) ==
  LET dt_utc == astimezone_utc(dt)
  IN [date_time |-> dt_utc.wall - (dt_utc.wall % Sec),
      frac |-> IF dt_utc.wall % Sec = 0 THEN NULL ELSE dt_utc.wall % Sec,
      suffix |-> "Z"]

\* to_utc_iso_z as a text: a naive datetime gets the display timezone, the
\* datetime is converted to UTC, isoformat(timespec="seconds") drops the
\* fraction, and "+00:00" is written as "Z"
to_utc_iso_z_text(dt) ==
  LET attached == IF dt.aware THEN dt
                  ELSE [dt EXCEPT !.aware = TRUE, !.utcoffset = get_local_tz]
      dt_utc == astimezone_utc(attached)
  IN [date_time |-> dt_utc.wall - (dt_utc.wall % Sec), frac |-> NULL, suffix |-> "Z"]

\* a reply to "when will you work on it": the day word, the hour and minute
\* digits and the AM/PM letters as typed; "" and NULL stand for a part that
\* is not there
DayWords == {"Mon", "wed", "WEDNESDAY", "sun", "Caturday", ""}
Replies ==
  [day : DayWords, hh : {NULL, 0, 7, 12, 25}, mm : {0, 30, 59, 99},
   ap : {"AM", "pm", ""}]
\* the Mondays 00:00 (naive, display timezone) a caller passes
WeekMondays == {0, Week}

\* str.lower() on the day words and AM/PM letters
Lower(word) ==
  CASE word = "Mon" -> "mon"
    [] word = "WEDNESDAY" -> "wednesday"
    [] word = "Caturday" -> "caturday"
    [] word = "AM" -> "am"
    [] word = "PM" -> "pm"
    [] word = "QUIT" -> "quit"
    [] OTHER -> word

\* re.match(r"^\s*([A-Za-z]+)\s+(\d{1,2}):(\d{2})\s*([AaPp][Mm])\s*$"): a
\* word, one or two hour digits, two minute digits and AM/PM, all present
MatchesDayTime(input) ==
  /\ input.day # ""
  /\ input.hh \in 0..99
  /\ input.mm \in 0..99
  /\ input.ap # ""

\* constants.py DAY_NAME_MAP and the day_map of bot.py 61-69
DAY_NAME_MAP ==
  [d \in {"mon", "monday", "tue", "tues", "tuesday", "wed", "wednesday",
          "thu", "thurs", "thursday", "fri", "friday", "sat", "saturday",
          "sun", "sunday"} |->
     CASE d \in {"mon", "monday"} -> 0
       [] d \in {"tue", "tues", "tuesday"} -> 1
       [] d \in {"wed", "wednesday"} -> 2
       [] d \in {"thu", "thurs", "thursday"} -> 3
       [] d \in {"fri", "friday"} -> 4
       [] d \in {"sat", "saturday"} -> 5
       [] OTHER -> 6]

\* hour = int(hh) % 12, plus 12 for pm
HourOfReply(input) == (input.hh % 12) + (IF Lower(input.ap) = "pm" THEN 12 ELSE 0)

\* datetime.replace(hour=, minute=, second=0, microsecond=0) accepts hours
\* 0..23 and minutes 0..59 and raises ValueError otherwise
ReplaceAccepts(hour, minute) == hour \in 0..23 /\ minute \in 0..59

\* (week_monday + timedelta(days=day_idx)).replace(hour, minute, 0, 0), a
\* wall-clock reading in the display timezone
PlannedLocal(week_monday, day_idx, hour, minute) ==
  LET d == week_monday + day_idx * Day
  IN (d - (d % Day)) + hour * Hour + minute * Min

\* parse_day_time_input, bot.py 56-89: None for a reply of the wrong shape
\* or with an unknown day; otherwise the planned time in the display
\* timezone as canonical UTC, or the ValueError of replace()
parse_day_time_input(input_str, week_monday) ==
  IF ~ MatchesDayTime(input_str) THEN [raised |-> "none", result |-> NULL]
  ELSE IF Lower(input_str.day) \notin DOMAIN DAY_NAME_MAP
       THEN [raised |-> "none", result |-> NULL]
       ELSE LET hour == HourOfReply(input_str)
                minute == input_str.mm
            IN IF ~ ReplaceAccepts(hour, minute)
               THEN [raised |-> "ValueError", result |-> NULL]
               ELSE [raised |-> "none",
                     result |-> to_utc_iso_z(
                       PlannedLocal(week_monday, DAY_NAME_MAP[Lower(input_str.day)],
                                    hour, minute)
                       - get_local_tz)]

\* the references handed to week_start_end_local: a wall-clock reading,
\* naive or aware in UTC or in the display timezone
References ==
  [wall : {0, 2 * Hour, 3 * Day + 12 * Hour, Week - Sec, Week + Min},
   aware : {TRUE},
   utcoffset : {0, get_local_tz}]
  \cup [wall : {0, 2 * Hour, 3 * Day + 12 * Hour, Week - Sec, Week + Min},
        aware : {FALSE},
        utcoffset : {0}]

\* datetime.weekday() of a wall-clock reading, Monday = 0
weekday(wall) == (wall \div Day) % 7

\* week_start_end_local, utils/datetime_utils.py 77-91: a naive reference
\* gets the display timezone; Monday 00:00:00 and Sunday 23:59:59 are taken
\* on the reference's own wall-clock reading and keep its tzinfo
week_start_end_local(reference) ==
  LET ref == IF reference.aware THEN reference
             ELSE [reference EXCEPT !.aware = TRUE, !.utcoffset = get_local_tz]
      monday == [ref EXCEPT !.wall = (ref.wall - (ref.wall % Day)) - weekday(ref.wall) * Day]
      sunday == [monday EXCEPT !.wall = (monday.wall - (monday.wall % Day))
                                         + 23 * Hour + 59 * Min + 59 * Sec + 6 * Day]
  IN <<monday, sunday>>

InitTime ==
  /\ now = 0
  /\ courses = <<>>
  /\ assignments = <<>>
  /\ study_plans = <<>>
  /\ user_assignment_status = <<>>
  /\ week_completion_notifications = <<>>
  /\ tick = NoTick
  /\ sent_work = <<>>
  /\ sent_due = <<>>
  /\ sent_congrats = <<>>
  /\ weekly = NoWeekly
  /\ call = NoCall
  /\ dialogue = NoDialogue
  /\ second = NoDialogue
  /\ ready = NotReady
  /\ workload = "helpers"

\* to_utc_iso_z(parse_canvas_datetime(s))
TimeRoundTrip(s) ==
  /\ call' = Returned("to_utc_iso_z", <<s>>, "none",
                      {to_utc_iso_z_text(parse_canvas_datetime_text(s))})
  /\ UNCHANGED tables
  /\ BotIdle

\* parse_day_time_input(reply, monday)
TimeParseDayTime(input_str, week_monday) ==
  /\ LET res == parse_day_time_input(input_str, week_monday)
     IN call' = Returned("parse_day_time_input", <<input_str, week_monday>>, res.raised,
                         IF res.result = NULL THEN {} ELSE {res.result})
  /\ UNCHANGED tables
  /\ BotIdle

\* week_start_end_local(reference)
TimeWeekStartEnd(reference) ==
  /\ call' = Returned("week_start_end_local", <<reference>>, "none",
                      {week_start_end_local(reference)})
  /\ UNCHANGED tables
  /\ BotIdle

NextTime ==
  \/ \E s \in IsoTexts : TimeRoundTrip(s)
  \/ \E input_str \in Replies, week_monday \in WeekMondays :
       TimeParseDayTime(input_str, week_monday)
  \/ \E reference \in References : TimeWeekStartEnd(reference)

SpecTime == InitTime /\ [][NextTime]_vars

\* C27: a canonical text (UTC, whole seconds, "Z") comes back unchanged from
\* to_utc_iso_z(parse_canvas_datetime(s)), and the same text written with
\* "+00:00" or with sub-second digits comes back as the canonical text of
\* the same second
C27_RoundTripIsCanonical ==
  call.op = "to_utc_iso_z" =>
    LET s == call.args[1]
    IN /\ IsCanonical(s) => call.rows = {s}
       /\ s.suffix \in {"Z", "+00:00"} =>
            call.rows = {[date_time |-> s.date_time, frac |-> NULL, suffix |-> "Z"]}

C27_Witness ==
  /\ call.op = "to_utc_iso_z"
  /\ call.args[1] = [date_time |-> DueA, frac |-> 500, suffix |-> "+00:00"]
  /\ call.rows = {[date_time |-> DueA, frac |-> NULL, suffix |-> "Z"]}

\* the hour of the day a 12-hour clock reading names
HourOf12(hh, ap) == IF hh = 12 THEN (IF ap = "pm" THEN 12 ELSE 0)
                    ELSE hh + (IF ap = "pm" THEN 12 ELSE 0)

\* C25: parse_day_time_input gives the canonical UTC instant of the named
\* weekday of the Monday's week at the named time in the display timezone
\* (12 AM is hour 0, 12 PM is hour 12), and gives no result, without
\* raising, for an unknown day name or an out-of-range time
C25_ParsesOrGivesNoResult ==
  call.op = "parse_day_time_input" =>
    LET input_str == call.args[1]
        week_monday == call.args[2]
        day == Lower(input_str.day)
    IN /\ call.raised = "none"
       /\ (MatchesDayTime(input_str) /\ day \in DOMAIN DAY_NAME_MAP
           /\ input_str.hh \in 1..12 /\ input_str.mm \in 0..59) =>
            call.rows = {week_monday + DAY_NAME_MAP[day] * Day
                         + HourOf12(input_str.hh, Lower(input_str.ap)) * Hour
                         + input_str.mm * Min - get_local_tz}
       /\ (MatchesDayTime(input_str)
           /\ (day \notin DOMAIN DAY_NAME_MAP \/ input_str.mm > 59)) =>
            call.rows = {}

\* the instant a reference denotes, a naive one read in the display timezone
InstantOf(reference) ==
  reference.wall - (IF reference.aware THEN reference.utcoffset ELSE get_local_tz)

\* C26: week_start_end_local gives Monday 00:00:00 and Sunday 23:59:59 of the
\* week of the reference instant in the display timezone, as datetimes of
\* the display timezone, 6 days 23:59:59 apart (so that all instants of one
\* display week give one window and the next Monday gives the window 7 days
\* later)
C26_WeekOfInstantInDisplayTz ==
  call.op = "week_start_end_local" =>
    LET monday == monday_of(local_wall(InstantOf(call.args[1])))
    IN call.rows =
         {<<[wall |-> monday, aware |-> TRUE, utcoffset |-> get_local_tz],
            [wall |-> monday + 6 * Day + 23 * Hour + 59 * Min + 59 * Sec,
             aware |-> TRUE, utcoffset |-> get_local_tz]>>}

----------------------------------------------------------------------------
(* The interactive commands, one message at a time: !thisweek              *)
(* (utils/weekly.py send_weekly_assignments), !complete and !reschedule    *)

\* the longest run of unanswered prompts followed
MaxTimeouts == 2

\* the week's assignments as the first sync left them: two of course 1 and
\* one of course 2, due on different days
ItemEarly ==
  [id |-> 1, name |-> "Quiz", due_at |-> Day + 23 * Hour + 59 * Min,
   html_url |-> "https://canvas/a/1", has_submitted_submissions |-> FALSE]
ItemMid ==
  [id |-> 2, name |-> "Lab", due_at |-> 3 * Day + 23 * Hour + 59 * Min,
   html_url |-> "https://canvas/a/2", has_submitted_submissions |-> FALSE]
FetchDialogue == <<<<ItemEarly, ItemMid>>, <<ItemFirst>>>>

\* the messages a member answers a planning prompt with: the cancellation
\* words, two times, and replies of the wrong shape, with an unknown day
\* and with minute 99
Messages ==
  {[day |-> "stop", hh |-> NULL, mm |-> NULL, ap |-> ""],
   [day |-> "QUIT", hh |-> NULL, mm |-> NULL, ap |-> ""],
   [day |-> "wed", hh |-> 7, mm |-> 0, ap |-> "pm"],
   [day |-> "sun", hh |-> 12, mm |-> 30, ap |-> "AM"],
   [day |-> "wed", hh |-> 7, mm |-> 30, ap |-> ""],
   [day |-> "Caturday", hh |-> 7, mm |-> 30, ap |-> "pm"],
   [day |-> "wed", hh |-> 7, mm |-> 99, ap |-> "pm"]}

\* ORDER BY: the listings of the keys in ascending order of a column; rows
\* with equal values may come in either order
Orderings(keys, column) ==
  {rows \in [1..Cardinality(keys) -> keys] :
     /\ \A a, b \in 1..Cardinality(keys) : a < b => rows[a] # rows[b]
     /\ \A a, b \in 1..Cardinality(keys) : a < b => column[rows[a]] <= column[rows[b]]}

\* the parts of a selection after re.split(r"\s*,\s*"): decimal numbers, a
\* word, the empty part, and the single character U+00B2 (superscript two),
\* written here by its code point
Parts == {"0", "1", "2", "3", "4", "x", "", "U+00B2"}
Selections == {<<a>> : a \in Parts} \cup {<<a, b>> : a, b \in Parts}

\* str.isdigit(): every character is a digit character, which includes
\* superscript digits
isdigit(part) == part \in {"0", "1", "2", "3", "4", "U+00B2"}

\* int(part) raises ValueError for a part that is not a decimal number
IntRaises(part) == part \notin {"0", "1", "2", "3", "4"}
int(part) ==
  CASE part = "0" -> 0
    [] part = "1" -> 1
    [] part = "2" -> 2
    [] part = "3" -> 3
    [] part = "4" -> 4

\* a variant: only 'stop' cancels
IsCancel_stop_only(content) ==
  content.hh = NULL /\ content.mm = NULL /\ content.ap = "" /\ Lower(content.day) = "stop"

\* content.lower() in ("stop", "quit")
IsCancel(content) ==
  /\ content.hh = NULL /\ content.mm = NULL /\ content.ap = ""
  /\ Lower(content.day) \in {"stop", "quit"}

\* _parse_day_time_input, utils/weekly.py 19-49: an error message for a
\* reply of the wrong shape or with an unknown day; otherwise the planned
\* time as a wall-clock reading of the display timezone, or the ValueError
\* of replace()
_parse_day_time_input(input_str, week_monday) ==
  IF ~ MatchesDayTime(input_str)
  THEN [raised |-> "none", planned_local |-> NULL, error |-> "Sorry, I didn't understand."]
  ELSE IF Lower(input_str.day) \notin DOMAIN DAY_NAME_MAP
       THEN [raised |-> "none", planned_local |-> NULL, error |-> "Unknown day."]
       ELSE LET hour == HourOfReply(input_str)
                minute == input_str.mm
            IN IF ~ ReplaceAccepts(hour, minute)
               THEN [raised |-> "ValueError", planned_local |-> NULL, error |-> "NULL"]
               ELSE [raised |-> "none",
                     planned_local |-> PlannedLocal(week_monday,
                                                    DAY_NAME_MAP[Lower(input_str.day)],
                                                    hour, minute),
                     error |-> "NULL"]

\* the body of the while loop of send_weekly_assignments, weekly.py 141-164,
\* on a message: the dialogue and the study_plans table after it
thisweek_message(d, plans, content) ==
  IF IsCancel(content)
  THEN <<[d EXCEPT !.pc = "done", !.outcome = "cancelled", !.last = content], plans>>
  ELSE LET parsed == _parse_day_time_input(content, d.monday)
           akey == d.rows[d.index]
       IN IF parsed.raised # "none"
          THEN <<[d EXCEPT !.pc = "done", !.outcome = parsed.raised, !.last = content],
                 plans>>
          ELSE IF parsed.error # "NULL"
               THEN <<[d EXCEPT !.outcome = "reprompted", !.last = content], plans>>
               ELSE <<[d EXCEPT !.pc = IF d.index = Len(d.rows) THEN "done" ELSE "wait",
                                !.index = d.index + 1,
                                !.outcome = "saved",
                                !.last = content],
                      upsert_study_plan(plans, d.user_id, akey[1], akey[2],
                                        to_utc_iso_z(parsed.planned_local - get_local_tz),
                                        "NULL")>>

InitDialogue ==
  /\ now = Start
  /\ LET synced == sync_canvas_data(<<>>, <<>>, FetchDialogue, NoFailure)
     IN courses = synced[1] /\ assignments = synced[2]
  /\ study_plans = <<>>
  /\ user_assignment_status = <<>>
  /\ week_completion_notifications = <<>>
  /\ tick = NoTick
  /\ sent_work = <<>>
  /\ sent_due = <<>>
  /\ sent_congrats = <<>>
  /\ weekly = NoWeekly
  /\ call = NoCall
  /\ dialogue = NoDialogue
  /\ second = NoDialogue
  /\ ready = Ready(TRUE)
  /\ workload \in {"planning", "completion"}

DialogueFrame ==
  UNCHANGED <<now, courses, assignments, week_completion_notifications, tick,
              sent_due, sent_congrats, weekly, call, second, ready, workload>>

\* !thisweek up to the first prompt, weekly.py 92-139: the week's assignments
\* are listed in order of due_at
ThisWeekStart(user_id) ==
  /\ workload = "planning"
  /\ dialogue.pc \in {"idle", "done"}
  /\ LET monday == monday_of(local_wall(now))
         keys == get_assignments_for_week_with_ids(assignments, courses, monday)
     IN \E rows \in Orderings(keys, [k \in keys |-> assignments[k].due_at]) :
        dialogue' =
          [NoDialogue EXCEPT !.kind = "thisweek",
                             !.pc = IF rows = <<>> THEN "done" ELSE "wait",
                             !.user_id = user_id, !.monday = monday, !.rows = rows,
                             !.index = 1, !.before = study_plans]
  /\ UNCHANGED <<study_plans, user_assignment_status, sent_work>>
  /\ DialogueFrame

\* the member's message arrives while !thisweek waits
ThisWeekMessage(content) ==
  /\ dialogue.kind = "thisweek" /\ dialogue.pc = "wait"
  /\ LET after == thisweek_message(dialogue, study_plans, content)
         key == <<dialogue.user_id, dialogue.rows[dialogue.index][1],
                  dialogue.rows[dialogue.index][2]>>
     IN /\ dialogue' = after[1]
        /\ study_plans' = after[2]
        /\ sent_work' = IF key \in DOMAIN study_plans
                           /\ after[2][key].planned_at_utc # study_plans[key].planned_at_utc
                        THEN Forget(sent_work, key) ELSE sent_work
  /\ UNCHANGED user_assignment_status
  /\ DialogueFrame

\* wait_for raises TimeoutError after SCHEDULING_TIMEOUT: weekly.py 144-147
\* sends a reminder and waits again
ThisWeekTimeout ==
  /\ dialogue.kind = "thisweek" /\ dialogue.pc = "wait"
  /\ dialogue.timeouts < MaxTimeouts
  /\ dialogue' = [dialogue EXCEPT !.timeouts = @ + 1, !.outcome = "timeout",
                                  !.last = NoMessage]
  /\ UNCHANGED <<study_plans, user_assignment_status, sent_work>>
  /\ DialogueFrame

\* the loop over the parts of a selection, bot.py 228-234: a part that is
\* not isdigit() is skipped, int() may raise, an index outside the listing
\* is skipped
RECURSIVE ParseSelection(_, _, _)
ParseSelection(parts, n, picks) ==
  IF parts = <<>> THEN [raised |-> "none", picks |-> picks]
  ELSE LET part == Head(parts)
       IN IF ~ isdigit(part) THEN ParseSelection(Tail(parts), n, picks)
          ELSE IF IntRaises(part) THEN [raised |-> "ValueError", picks |-> picks]
          ELSE LET idx == int(part) - 1
               IN ParseSelection(Tail(parts), n,
                                 IF 0 <= idx /\ idx < n THEN Append(picks, idx) ELSE picks)

\* the loop over the picks, bot.py 243-246
RECURSIVE MarkPicks(_, _, _, _)
MarkPicks(uas, user_id, items, picks) ==
  IF picks = <<>> THEN uas
  ELSE LET akey == items[Head(picks) + 1]
       IN MarkPicks(set_assignment_completed(uas, user_id, akey[1], akey[2], TRUE),
                    user_id, items, Tail(picks))

\* !complete after the selection arrived, bot.py 226-249: the dialogue and
\* the user_assignment_status table after it
complete_selection(d, uas, selection) ==
  LET parsed == ParseSelection(selection, Len(d.rows), <<>>)
  IN IF parsed.raised # "none"
     THEN <<[d EXCEPT !.pc = "done", !.outcome = parsed.raised, !.selection = selection],
            uas>>
     ELSE IF parsed.picks = <<>>
          THEN <<[d EXCEPT !.pc = "done", !.outcome = "No valid selections.",
                           !.selection = selection], uas>>
          ELSE <<[d EXCEPT !.pc = "done", !.outcome = "marked", !.selection = selection],
                 MarkPicks(uas, d.user_id, d.rows, parsed.picks)>>

\* !complete up to the listing, bot.py 175-217: the incomplete assignments
\* of the member's week in order of due_at, numbered from 1
CompleteStart(user_id) ==
  /\ workload = "completion"
  /\ dialogue.pc \in {"idle", "done"}
  /\ LET monday == monday_of(local_wall(now))
         keys == {r.key : r \in {x \in get_week_assignments_with_status(
                                          assignments, courses, user_assignment_status,
                                          user_id, monday) : x.completed = 0}}
     IN \E items \in Orderings(keys, [k \in keys |-> assignments[k].due_at]) :
        dialogue' =
          [NoDialogue EXCEPT !.kind = "complete",
                             !.pc = IF items = <<>> THEN "done" ELSE "wait",
                             !.user_id = user_id, !.monday = monday, !.rows = items,
                             !.before = user_assignment_status]
  /\ UNCHANGED <<study_plans, user_assignment_status, sent_work>>
  /\ DialogueFrame

\* the member's selection arrives while !complete waits
CompleteSelection(selection) ==
  /\ dialogue.kind = "complete" /\ dialogue.pc = "wait"
  /\ LET after == complete_selection(dialogue, user_assignment_status, selection)
     IN /\ dialogue' = after[1]
        /\ user_assignment_status' = after[2]
  /\ UNCHANGED <<study_plans, sent_work>>
  /\ DialogueFrame

\* wait_for raises TimeoutError after 90 seconds: bot.py 220-224 returns
CompleteTimeout ==
  /\ dialogue.kind = "complete" /\ dialogue.pc = "wait"
  /\ dialogue' = [dialogue EXCEPT !.pc = "done", !.timeouts = @ + 1,
                                  !.outcome = "timeout"]
  /\ UNCHANGED <<study_plans, user_assignment_status, sent_work>>
  /\ DialogueFrame

\* !reschedule up to the listing, bot.py 252-274: the member's planned
\* sessions of the week in order of planned_at_utc, numbered from 1
RescheduleStart(user_id) ==
  /\ workload = "planning"
  /\ dialogue.pc \in {"idle", "done"}
  /\ LET monday == monday_of(local_wall(now))
         keys == get_user_plans_for_week_detailed(study_plans, assignments, courses,
                                                  user_id, monday)
     IN \E rows \in Orderings(keys, [k \in keys |-> study_plans[k].planned_at_utc]) :
        dialogue' =
          [NoDialogue EXCEPT !.kind = "reschedule",
                             !.pc = IF rows = <<>> THEN "done" ELSE "wait",
                             !.user_id = user_id, !.monday = monday, !.rows = rows,
                             !.before = study_plans]
  /\ UNCHANGED <<study_plans, user_assignment_status, sent_work>>
  /\ DialogueFrame

\* the number of the session arrives, bot.py 285-292: a message that is not
\* isdigit() or is outside the listing cancels; int() may raise
RescheduleSelect(part) ==
  /\ dialogue.kind = "reschedule" /\ dialogue.pc = "wait"
  /\ dialogue' =
       IF ~ isdigit(part)
       THEN [dialogue EXCEPT !.pc = "done", !.outcome = "Invalid selection.",
                             !.selection = <<part>>]
       ELSE IF IntRaises(part)
            THEN [dialogue EXCEPT !.pc = "done", !.outcome = "ValueError",
                                  !.selection = <<part>>]
            ELSE IF int(part) - 1 < 0 \/ int(part) - 1 >= Len(dialogue.rows)
                 THEN [dialogue EXCEPT !.pc = "done", !.outcome = "Invalid selection.",
                                       !.selection = <<part>>]
                 ELSE [dialogue EXCEPT !.pc = "wait_time", !.index = int(part),
                                       !.selection = <<part>>]
  /\ UNCHANGED <<study_plans, user_assignment_status, sent_work>>
  /\ DialogueFrame

\* the new time arrives, bot.py 305-313: a reply without a result ends the
\* command, a result is written with update_study_plan_time
RescheduleMessage(content) ==
  /\ dialogue.kind = "reschedule" /\ dialogue.pc = "wait_time"
  /\ LET parsed == parse_day_time_input(content, dialogue.monday)
         key == dialogue.rows[dialogue.index]
     IN IF parsed.raised # "none"
        THEN /\ dialogue' = [dialogue EXCEPT !.pc = "done", !.outcome = parsed.raised,
                                             !.last = content]
             /\ UNCHANGED <<study_plans, sent_work>>
        ELSE IF parsed.result = NULL
             THEN /\ dialogue' = [dialogue EXCEPT !.pc = "done",
                                                  !.outcome = "Sorry, I didn't understand.",
                                                  !.last = content]
                  /\ UNCHANGED <<study_plans, sent_work>>
             ELSE /\ dialogue' = [dialogue EXCEPT !.pc = "done", !.outcome = "rescheduled",
                                                  !.last = content]
                  /\ study_plans' = update_study_plan_time(study_plans, key[1], key[2],
                                                           key[3], parsed.result)
                  /\ sent_work' = Forget(sent_work, key)
  /\ UNCHANGED user_assignment_status
  /\ DialogueFrame

\* wait_for raises TimeoutError after 60 seconds (bot.py 280-284) or after
\* 120 seconds (bot.py 300-304): the command returns
RescheduleTimeout ==
  /\ dialogue.kind = "reschedule" /\ dialogue.pc \in {"wait", "wait_time"}
  /\ dialogue' = [dialogue EXCEPT !.pc = "done", !.timeouts = @ + 1,
                                  !.outcome = "timeout"]
  /\ UNCHANGED <<study_plans, user_assignment_status, sent_work>>
  /\ DialogueFrame

\* the members who plan; every member completes
Planners == {1}

NextDialogue ==
  \/ \E u \in Planners : ThisWeekStart(u)
  \/ \E content \in Messages : ThisWeekMessage(content)
  \/ ThisWeekTimeout
  \/ \E u \in Users : CompleteStart(u)
  \/ \E selection \in Selections : CompleteSelection(selection)
  \/ CompleteTimeout
  \/ \E u \in Planners : RescheduleStart(u)
  \/ \E part \in Parts : RescheduleSelect(part)
  \/ \E content \in Messages : RescheduleMessage(content)
  \/ RescheduleTimeout

SpecDialogue == InitDialogue /\ [][NextDialogue]_vars

\* what the planning dialogue of the current state saved: the time of the
\* j-th assignment of its listing
PlanKeyAt(j) == <<dialogue.user_id, dialogue.rows[j][1], dialogue.rows[j][2]>>

\* C21: when 'stop' or 'quit' arrives at the prompt for assignment i, the
\* dialogue ends, the plans saved for assignments 1..i-1 are stored and
\* no plan was written for assignments i..n
C21_CancelKeepsSavedPlans ==
  (dialogue.kind = "thisweek" /\ dialogue.last.day \in {"stop", "QUIT"}) =>
    /\ dialogue.pc = "done"
    /\ \A j \in 1..Len(dialogue.rows) :
         IF j < dialogue.index
         THEN /\ PlanKeyAt(j) \in DOMAIN study_plans
              /\ study_plans[PlanKeyAt(j)].planned_at_utc \in
                   {PlanA + 5 * Hour, 6 * Day + 5 * Hour + 30 * Min}
         ELSE RowOf(study_plans, PlanKeyAt(j)) = RowOf(dialogue.before, PlanKeyAt(j))

C21_Witness ==
  /\ dialogue.kind = "thisweek" /\ dialogue.last.day = "QUIT"
  /\ dialogue.index = 2 /\ Len(dialogue.rows) = 3
  /\ dialogue.before = <<>>
  /\ DOMAIN study_plans = {PlanKeyAt(1)}

\* a reply that names no weekday and time: the wrong shape, an unknown day,
\* or an hour or minute out of range
FailsToParse(content) ==
  ~ (/\ MatchesDayTime(content)
     /\ Lower(content.day) \in DOMAIN DAY_NAME_MAP
     /\ content.hh \in 1..12
     /\ content.mm \in 0..59)

\* C22: after a reply that fails to parse, the planning dialogue has written
\* no plan for the assignment it is prompting for, has prompted again and is
\* still waiting; no exception has ended it
C22_UnparsableReplyReprompts ==
  (/\ dialogue.kind = "thisweek"
   /\ dialogue.last # NoMessage
   /\ dialogue.last.day \notin {"stop", "QUIT"}
   /\ FailsToParse(dialogue.last)) =>
    /\ dialogue.pc = "wait"
    /\ dialogue.outcome = "reprompted"
    /\ RowOf(study_plans, PlanKeyAt(dialogue.index)) =
         RowOf(dialogue.before, PlanKeyAt(dialogue.index))

\* C23: a dialogue whose wait for a reply times out is over with that step,
\* and the step writes nothing to the store
C23_TimeoutEndsDialogue ==
  [][dialogue'.timeouts > dialogue.timeouts =>
       (dialogue'.pc = "done" /\ UNCHANGED tables)]_vars

\* the numbers 1..n a selection names
ValidIndices(selection, n) ==
  {j \in 1..n : \E p \in 1..Len(selection) : selection[p] = ToString(j)}
StatusKeyAt(j) == <<dialogue.user_id, dialogue.rows[j][1], dialogue.rows[j][2]>>

\* C24: after a selection, the completion dialogue has raised no error, the
\* status table is the one before it with exactly the listed assignments at
\* the valid numbers marked completed for the calling member, and with no
\* valid number nothing is written and "No valid selections" is reported
C24_SelectionMarksValidIndices ==
  (dialogue.kind = "complete" /\ dialogue.selection # <<>>) =>
    LET valid == ValidIndices(dialogue.selection, Len(dialogue.rows))
        marked == {StatusKeyAt(j) : j \in valid}
    IN /\ dialogue.outcome # "ValueError"
       /\ DOMAIN user_assignment_status = DOMAIN dialogue.before \cup marked
       /\ \A k \in marked : user_assignment_status[k].completed = 1
       /\ \A k \in DOMAIN dialogue.before \ marked :
            user_assignment_status[k] = dialogue.before[k]
       /\ valid = {} => dialogue.outcome = "No valid selections."

----------------------------------------------------------------------------
(* Properties of the due-date step, of delivery failures and of what sync  *)
(* leaves in the store                                                     *)

\* C31: get_pending_due_date_reminders never raises, so no iteration of
\* check_reminders is ended by the due-date step: the exception an
\* iteration ends with is never the NameError of that query
C31_DueDateStepNeverRaises ==
  tick.raised # "NameError"

\* the members a step delivers the due-date reminder of a threshold of an
\* assignment to
DueDeliveredInStep(k, tag) ==
  {u \in Users : Count(sent_due', <<k, tag, u>>) > Count(sent_due, <<k, tag, u>>)}

\* C32: within one iteration the due-date reminder of a threshold of an
\* assignment goes to at most one member, and a member it goes to is the
\* first one in iteration order who has not completed the assignment
C32_DueReminderToFirstIncompleteMember ==
  [][\A k \in DOMAIN assignments : \A tag \in DueTags :
       /\ Cardinality(DueDeliveredInStep(k, tag)) <= 1
       /\ \A u \in DueDeliveredInStep(k, tag) :
            /\ CompletedBy(user_assignment_status, u, k) = 0
            /\ \A v \in Users : v < u => CompletedBy(user_assignment_status, v, k) = 1]_vars

\* an iteration is through its due-date step at a reading inside the 2d
\* window of an assignment of the week with the flag unsent that two
\* members have not completed
C32_Witness ==
  /\ tick.pc = "idle"
  /\ tick.now_utc # NULL
  /\ \E k \in DOMAIN assignments :
       /\ InDueWindow(assignments[k].due_at, tick.now_utc, "2d")
       /\ InDisplayWeekOf(assignments[k].due_at, tick.now_utc)
       /\ assignments[k].due_reminder_2d_sent = 0
       /\ CompletedBy(user_assignment_status, 1, k) = 0
       /\ CompletedBy(user_assignment_status, 2, k) = 0

\* the flags a step sets: plan key and threshold
FlagsSetInStep ==
  {x \in (DOMAIN study_plans) \X WorkTags :
     /\ x[1] \in DOMAIN study_plans'
     /\ study_plans[x[1]][WorkColumn(x[2])] = 0
     /\ study_plans'[x[1]][WorkColumn(x[2])] = 1}

\* C33: a flag is set only by the mark that follows a delivery that returned;
\* a delivery that raises ends the iteration with no flag set, nothing more
\* sent and the rest of the batch dropped; and the iteration after it
\* selects again every plan with the flag unsent that is inside its window
C33_FlagOnlyAfterDelivery ==
  [][/\ \A x \in FlagsSetInStep :
          /\ tick.pc = "mark"
          /\ \E r \in tick.marking :
               /\ <<r.user_id, r.course_id, r.assignment_id>> = x[1]
               /\ r.reminder_type = x[2]
     /\ (tick.raised # "HTTPException" /\ tick'.raised = "HTTPException") =>
          /\ study_plans' = study_plans
          /\ assignments' = assignments
          /\ sent_work' = sent_work /\ sent_due' = sent_due
          /\ tick'.pc = "idle" /\ tick'.reminders = {} /\ tick'.marking = {}
     /\ (tick.raised = "HTTPException" /\ tick.pc = "idle" /\ tick'.pc = "work") =>
          \A k \in DOMAIN study_plans : \A tag \in WorkTags :
            (/\ study_plans[k][WorkColumn(tag)] = 0
             /\ <<k[2], k[3]>> \in DOMAIN assignments /\ k[2] \in DOMAIN courses
             /\ InStoredWorkWindow(study_plans[k].planned_at_utc, tick'.now_utc, tag))
            => WorkReminderOf(k, tag) \in tick'.reminders]_vars

\* the delivery of a reminder raised, and the iteration a minute later has
\* selected the same reminder again, still undelivered and unmarked
C33_Witness ==
  /\ tick.pc = "work"
  /\ tick.raised = "HTTPException"
  /\ tick.prev_now_utc # NULL
  /\ \E r \in tick.reminders :
       /\ InStoredWorkWindow(r.planned_at_utc, tick.prev_now_utc, r.reminder_type)
       /\ Count(sent_work, <<<<r.user_id, r.course_id, r.assignment_id>>,
                             r.reminder_type>>) = 0
       /\ study_plans[<<r.user_id, r.course_id, r.assignment_id>>]
            [WorkColumn(r.reminder_type)] = 0

\* Monday 00:00:00 of the display week of an instant, as an instant
DisplayMondayOf(t) == monday_of(local_wall(t)) - get_local_tz

\* C34: a due-date reminder of a threshold is returned only for a due_at in
\* the display week of now, and never for a due_at that is less than the
\* threshold after Monday 00:00:00 of its own display week
C34_DueReminderOnlyInSameWeek ==
  call.op = "get_pending_due_date_reminders" =>
    \A r \in call.rows :
      /\ DisplayMondayOf(r.due_at) = DisplayMondayOf(call.args[1])
      /\ r.due_at - DisplayMondayOf(r.due_at) >= DueDelta(r.reminder_type)

\* a query made on the Sunday evening of the week before, inside the 12h
\* window of a stored assignment due on Monday morning with its flag unsent
C34_Witness ==
  /\ call.op = "get_pending_due_date_reminders"
  /\ call.args[1] = DueC - 12 * Hour - 30 * Sec
  /\ <<1, 1>> \in DOMAIN assignments
  /\ 1 \in DOMAIN courses
  /\ assignments[<<1, 1>>].due_at = DueC
  /\ assignments[<<1, 1>>].due_reminder_12h_sent = 0
  /\ DisplayMondayOf(DueC) # DisplayMondayOf(call.args[1])
  /\ InDueWindow(DueC, call.args[1], "12h")

----------------------------------------------------------------------------
(* Two interactive commands of one member waiting in one channel: every    *)
(* wait_for('message', check=check_author) in bot.py 216-221, 276-301 and  *)
(* utils/weekly.py 130-143 has the same check, author and channel, and the *)
(* client hands a message to every waiter whose check accepts it           *)

\* the command text as a waiting dialogue reads it: not a day and time
CommandText == [day |-> "!thisweek", hh |-> NULL, mm |-> NULL, ap |-> ""]

\* what the member types while commands wait
ReplyMessages ==
  {[day |-> "stop", hh |-> NULL, mm |-> NULL, ap |-> ""],
   [day |-> "wed", hh |-> 7, mm |-> 0, ap |-> "pm"],
   [day |-> "wed", hh |-> 7, mm |-> 30, ap |-> ""]}

\* a message reaches a dialogue: one that waits in !thisweek runs the body
\* of its loop on it, any other is not listening
Deliver(d, plans, content) ==
  IF d.kind = "thisweek" /\ d.pc = "wait" THEN thisweek_message(d, plans, content)
  ELSE <<d, plans>>

\* the delivery counts of the plans whose planned_at a step changed start
\* again
ForgetChanged(f, old, new) ==
  [x \in {y \in DOMAIN f : ~ (/\ y[1] \in DOMAIN old
                              /\ old[y[1]].planned_at_utc # new[y[1]].planned_at_utc)}
     |-> f[x]]

InitReplies ==
  /\ now = Start
  /\ LET synced == sync_canvas_data(<<>>, <<>>, FetchDialogue, NoFailure)
     IN courses = synced[1] /\ assignments = synced[2]
  /\ study_plans = <<>>
  /\ user_assignment_status = <<>>
  /\ week_completion_notifications = <<>>
  /\ tick = NoTick
  /\ sent_work = <<>>
  /\ sent_due = <<>>
  /\ sent_congrats = <<>>
  /\ weekly = NoWeekly
  /\ call = NoCall
  /\ dialogue = NoDialogue
  /\ second = NoDialogue
  /\ ready = Ready(TRUE)
  /\ workload = "replies"

RepliesFrame ==
  UNCHANGED <<now, courses, assignments, user_assignment_status,
              week_completion_notifications, tick, sent_due, sent_congrats, weekly,
              call, ready, workload>>

\* the member sends !thisweek while at most one command waits: the message
\* reaches the waiting one, and the new command lists the week and waits
RepliesCommand(user_id) ==
  /\ dialogue.pc # "wait" \/ second.pc # "wait"
  /\ LET monday == monday_of(local_wall(now))
         keys == get_assignments_for_week_with_ids(assignments, courses, monday)
         first == Deliver(dialogue, study_plans, CommandText)
         other == Deliver(second, first[2], CommandText)
     IN \E rows \in Orderings(keys, [k \in keys |-> assignments[k].due_at]) :
          LET fresh == [NoDialogue EXCEPT !.kind = "thisweek",
                                          !.pc = IF rows = <<>> THEN "done" ELSE "wait",
                                          !.user_id = user_id, !.monday = monday,
                                          !.rows = rows, !.index = 1,
                                          !.before = other[2]]
          IN /\ dialogue' = IF dialogue.pc # "wait" THEN fresh ELSE first[1]
             /\ second' = IF dialogue.pc # "wait" THEN other[1] ELSE fresh
             /\ study_plans' = other[2]
             /\ sent_work' = ForgetChanged(sent_work, study_plans, other[2])
  /\ RepliesFrame

\* the member sends a message while a command waits: it reaches every
\* waiting dialogue, in the order they began to wait
RepliesMessage(content) ==
  /\ dialogue.pc = "wait" \/ second.pc = "wait"
  /\ LET first == Deliver(dialogue, study_plans, content)
         other == Deliver(second, first[2], content)
     IN /\ dialogue' = first[1]
        /\ second' = other[1]
        /\ study_plans' = other[2]
        /\ sent_work' = ForgetChanged(sent_work, study_plans, other[2])
  /\ RepliesFrame

\* the wait of one of the commands times out: weekly.py 144-147 prompts
\* again
RepliesTimeout(slot) ==
  /\ IF slot = 1
     THEN /\ dialogue.pc = "wait" /\ dialogue.timeouts < MaxTimeouts
          /\ dialogue' = [dialogue EXCEPT !.timeouts = @ + 1, !.outcome = "timeout",
                                          !.last = NoMessage]
          /\ UNCHANGED second
     ELSE /\ second.pc = "wait" /\ second.timeouts < MaxTimeouts
          /\ second' = [second EXCEPT !.timeouts = @ + 1, !.outcome = "timeout",
                                      !.last = NoMessage]
          /\ UNCHANGED dialogue
  /\ UNCHANGED <<study_plans, sent_work>>
  /\ RepliesFrame

NextReplies ==
  \/ RepliesCommand(1)
  \/ \E content \in ReplyMessages : RepliesMessage(content)
  \/ \E slot \in 1..2 : RepliesTimeout(slot)

SpecReplies == InitReplies /\ [][NextReplies]_vars

\* C35: a message of the member advances at most one of the dialogues that
\* wait for it
C35_ReplyAdvancesOneDialogue ==
  [][~ (/\ dialogue.pc = "wait" /\ second.pc = "wait"
        /\ dialogue' # dialogue /\ second' # second)]_vars

----------------------------------------------------------------------------
(* on_ready, bot.py 96-119, over the connects and reconnects of a session: *)
(* the client runs the handler of every event as a task of its own, so a   *)
(* handler that awaits init_db or the first sync may still be in flight    *)
(* when the next event arrives                                             *)

\* the on_ready events of a run
MaxReady == 3

InitReady ==
  /\ now = Start
  /\ courses = <<>>
  /\ assignments = <<>>
  /\ study_plans = <<>>
  /\ user_assignment_status = <<>>
  /\ week_completion_notifications = <<>>
  /\ tick = NoTick
  /\ sent_work = <<>>
  /\ sent_due = <<>>
  /\ sent_congrats = <<>>
  /\ weekly = [NoWeekly EXCEPT !.is_running = FALSE]
  /\ call = NoCall
  /\ dialogue = NoDialogue
  /\ second = NoDialogue
  /\ ready = NotReady
  /\ workload = "ready"

ReadyFrame ==
  UNCHANGED <<now, study_plans, user_assignment_status, week_completion_notifications,
              tick, sent_work, sent_due, sent_congrats, call, dialogue, second,
              workload>>

\* a variant of lines 114-118: start() without asking is_running()
StartDrivers_always_starts(r) ==
  [r EXCEPT !.weekly_notification = @ + 1, !.check_reminders = @ + 1]

\* lines 114-118: each loop is started unless its task is running; there is
\* no await between the question and start(), and neither loop body lets
\* an exception end its task
StartDrivers(r) ==
  [r EXCEPT !.weekly_notification = IF @ >= 1 THEN @ ELSE @ + 1,
            !.check_reminders = IF @ >= 1 THEN @ ELSE @ + 1]

\* the gateway reports ready: the handler starts and awaits init_db, which
\* creates the tables that are missing and changes no row
OnReady ==
  /\ ready.events < MaxReady
  /\ ready' = [ready EXCEPT !.events = @ + 1, !.init = @ + 1]
  /\ UNCHANGED <<courses, assignments, weekly>>
  /\ ReadyFrame

\* line 105 in a handler back from init_db: with _synced_once set it goes
\* on to start the drivers, otherwise it enters the first sync
OnReadySyncedOnce ==
  /\ ready.init > 0
  /\ LET r == [ready EXCEPT !.init = @ - 1]
     IN ready' = IF ready.synced_once THEN StartDrivers(r)
                 ELSE [r EXCEPT !.sync = @ + 1]
  /\ weekly' = [weekly EXCEPT !.is_running = @ \/ ready.synced_once]
  /\ UNCHANGED <<courses, assignments>>
  /\ ReadyFrame

\* lines 106-118 in a handler that entered the first sync: the cycle ends,
\* _synced_once is set unless a fetch failed, and the drivers are started
OnReadySync(fetched, failing) ==
  /\ ready.sync > 0
  /\ LET synced == sync_canvas_data(courses, assignments, fetched, failing)
     IN /\ courses' = synced[1]
        /\ assignments' = synced[2]
  /\ ready' = StartDrivers([ready EXCEPT !.sync = @ - 1,
                                         !.synced_once = @ \/ failing = NoFailure])
  /\ weekly' = [weekly EXCEPT !.is_running = TRUE]
  /\ ReadyFrame

NextReady ==
  \/ Advance
  \/ OnReady
  \/ OnReadySyncedOnce
  \/ \E fetched \in FetchesOf(workload), failing \in FailuresOf(workload) :
       OnReadySync(fetched, failing)

SpecReady == InitReady /\ [][NextReady]_vars

\* C36: whatever the on_ready events, each periodic driver has been started
\* at most once, so at most one instance of the reminder tick exists
C36_DriversStartedAtMostOnce ==
  /\ ready.check_reminders <= 1
  /\ ready.weekly_notification <= 1

\* a second on_ready handler has run to its end with both drivers running
C36_Witness ==
  /\ ready.events >= 2
  /\ ready.init = 0 /\ ready.sync = 0
  /\ ready.check_reminders = 1 /\ ready.weekly_notification = 1

----------------------------------------------------------------------------
(* upsert_assignments, db_manager.py 179-209, called with batches in which *)
(* an item may carry a due_at that does not parse: the statements run on   *)
(* one connection, the commit is the last line, and an exception leaves    *)
(* the async with block, which closes the connection                       *)

\* a due_at text that datetime.fromisoformat rejects with ValueError
Malformed == 0 - 2

ItemMalformed ==
  [id |-> 3, name |-> "Talk", due_at |-> Malformed,
   html_url |-> "https://canvas/a/3", has_submitted_submissions |-> FALSE]

\* the items of a batch and its greatest length
BatchItems == {ItemFirst, ItemRevised, ItemMid, ItemMalformed}
MaxBatch == 2
RECURSIVE SeqsUpTo(_, _)
SeqsUpTo(S, n) ==
  IF n = 0 THEN {<<>>}
  ELSE LET shorter == SeqsUpTo(S, n - 1)
       IN shorter \cup {Append(q, x) : q \in shorter, x \in S}
Batches == SeqsUpTo(BatchItems, MaxBatch) \ {<<>>}

\* the loop of lines 182-208 inside the connection's open transaction: each
\* item is parsed (line 187, when due_at is not empty) and then executed on
\* what the statements before it wrote; a ValueError ends the loop
RECURSIVE ExecuteUpserts(_, _, _)
ExecuteUpserts(pending, list, course_id) ==
  IF list = <<>> THEN [raised |-> "none", pending |-> pending]
  ELSE LET a == Head(list)
       IN IF a.due_at # NULL /\ a.due_at = Malformed
          THEN [raised |-> "ValueError", pending |-> pending]
          ELSE ExecuteUpserts(upsert_assignments(pending, <<a>>, course_id),
                              Tail(list), course_id)

\* a variant: every statement is committed as it is executed
upsert_assignments_autocommit(tbl, list, course_id) ==
  LET tx == ExecuteUpserts(tbl, list, course_id)
  IN [raised |-> tx.raised, table |-> tx.pending]

\* the call as a whole: db.commit() of line 209 is reached only when no
\* item raised; otherwise the connection is closed with its transaction
\* open and sqlite discards what the statements wrote
upsert_assignments_commit(tbl, list, course_id) ==
  LET tx == ExecuteUpserts(tbl, list, course_id)
  IN [raised |-> tx.raised,
      table |-> IF tx.raised = "none" THEN tx.pending ELSE tbl]

InitBatch ==
  /\ now = 0
  /\ courses = upsert_courses(<<>>, FetchedCourses)
  /\ assignments = <<>>
  /\ study_plans = <<>>
  /\ user_assignment_status = <<>>
  /\ week_completion_notifications = <<>>
  /\ tick = NoTick
  /\ sent_work = <<>>
  /\ sent_due = <<>>
  /\ sent_congrats = <<>>
  /\ weekly = NoWeekly
  /\ call = NoCall
  /\ dialogue = NoDialogue
  /\ second = NoDialogue
  /\ ready = NotReady
  /\ workload = "batches"

BatchUpsertAssignments(list, course_id) ==
  /\ course_id \in DOMAIN courses
  /\ LET done == upsert_assignments_commit(assignments, list, course_id)
     IN /\ assignments' = done.table
        /\ call' = Returned("upsert_assignments", <<list, course_id>>, done.raised, {})
  /\ UNCHANGED <<courses, study_plans, user_assignment_status,
                 week_completion_notifications>>
  /\ UNCHANGED <<now, tick, sent_work, sent_due, sent_congrats, weekly, dialogue, second,
                 ready, workload>>

NextBatch ==
  \E list \in Batches, course_id \in {1, 2} : BatchUpsertAssignments(list, course_id)

SpecBatch == InitBatch /\ [][NextBatch]_vars

\* C37: a call of upsert_assignments in which an item fails leaves the
\* assignments table as it was before the call
C37_FailedBatchCommitsNothing ==
  [][(call'.op = "upsert_assignments" /\ call'.raised # "none")
       => assignments' = assignments]_vars

\* a batch whose first item would have revised a stored row and whose second
\* item failed: the row has its values of before
C37_Witness ==
  /\ call.op = "upsert_assignments" /\ call.raised = "ValueError"
  /\ call.args = <<<<ItemRevised, ItemMalformed>>, 1>>
  /\ <<1, 1>> \in DOMAIN assignments
  /\ assignments[<<1, 1>>].name = ItemFirst.name
  /\ <<1, 3>> \notin DOMAIN assignments

----------------------------------------------------------------------------
(* Sync cycles over an upstream that drops assignments: utils/sync.py 7-24 *)
(* writes with upsert_courses and upsert_assignments only, and no          *)
(* statement of database/db_manager.py deletes a row                       *)

\* what fetchAssignments returns once the Lab of course 1 and the only
\* assignment of course 2 are gone upstream and the Quiz is renamed
ItemEarlyRenamed == [ItemEarly EXCEPT !.name = "Quiz 1"]
FetchGone == <<<<ItemEarlyRenamed>>, <<>>>>
GoneFetches == {FetchDialogue, FetchGone}

\* the readings a due-date query is made at: inside the 2d, 1d and 12h
\* windows of the Lab
GoneQueryInstants ==
  {ItemMid.due_at - 2 * Day + 30 * Sec, ItemMid.due_at - Day,
   ItemMid.due_at - 12 * Hour - 30 * Sec}

InitGone ==
  /\ now = 0
  /\ courses = <<>>
  /\ assignments = <<>>
  /\ study_plans = <<>>
  /\ user_assignment_status = <<>>
  /\ week_completion_notifications = <<>>
  /\ tick = NoTick
  /\ sent_work = <<>>
  /\ sent_due = <<>>
  /\ sent_congrats = <<>>
  /\ weekly = NoWeekly
  /\ call = NoCall
  /\ dialogue = NoDialogue
  /\ second = NoDialogue
  /\ ready = NotReady
  /\ workload = "gone"

NextGone ==
  \/ \E fetched \in GoneFetches, failing \in 0..NoFailure :
       StoreSyncCanvasData(fetched, failing)
  \/ \E completed \in BOOLEAN : StoreSetAssignmentCompleted(<<1, 1, 2>>, completed)
  \/ \E n \in GoneQueryInstants, u \in Users : StoreGetPendingDueDateReminders(n, u)
  \/ \E u \in Users, monday \in QueryMondays : StoreGetWeekAssignmentsWithStatus(u, monday)
  \/ \E u \in Users, monday \in QueryMondays : StoreCheckWeekCompletion(u, monday)

SpecGone == InitGone /\ [][NextGone]_vars

\* the keys a sync cycle that failed at `failing` was given rows for
FetchedKeys(fetched, failing) ==
  UNION {{<<FetchedCourses[j].id, fetched[j][i].id>> : i \in 1..Len(fetched[j])}
         : j \in {x \in 1..Len(FetchedCourses) : x < failing}}

\* no step removes a course or an assignment, and a sync cycle leaves every
\* row it was given nothing for as it was
SyncKeepsRows ==
  /\ DOMAIN courses \subseteq DOMAIN courses'
  /\ DOMAIN assignments \subseteq DOMAIN assignments'
  /\ call'.op = "sync_canvas_data" =>
       \A k \in DOMAIN assignments \ FetchedKeys(call'.args[1], call'.args[2]) :
         assignments'[k] = assignments[k]

\* the Lab is stored and the last batch written for its course is the one
\* without it
LabGone ==
  /\ <<1, 2>> \in DOMAIN assignments
  /\ <<1, 1>> \in DOMAIN assignments
  /\ assignments[<<1, 1>>].name = ItemEarlyRenamed.name

\* the Lab that is gone upstream is in the listing of its week and in the
\* total of the week-completion check
GoneStaysListed ==
  /\ (LabGone /\ call.op = "get_week_assignments_with_status" /\ call.args[2] = 0)
       => \E r \in call.rows : r.key = <<1, 2>>
  /\ (LabGone /\ call.op = "check_week_completion" /\ call.args[2] = 0)
       => \A result \in call.rows : result[2] = Cardinality(DOMAIN assignments)

\* the Lab that is gone upstream is returned by the due-date selection made
\* inside one of its windows for a member who has not completed it, with the
\* due_at of its last sync
GoneStaysSelected ==
  (LabGone /\ call.op = "get_pending_due_date_reminders")
    => \A tag \in DueTags :
         (/\ InDueWindow(assignments[<<1, 2>>].due_at, call.args[1], tag)
          /\ assignments[<<1, 2>>][DueColumn(tag)] = 0
          /\ CompletedBy(user_assignment_status, call.args[2], <<1, 2>>) = 0)
         => [id |-> 2, course_id |-> 1, due_at |-> to_utc_iso_z(ItemMid.due_at),
             reminder_type |-> tag] \in call.rows

\* the first two parts over the steps of the store's client
GoneKeptAndListed == [][SyncKeepsRows /\ GoneStaysListed']_vars

\* C38: sync cycles delete no course and no assignment, and an assignment
\* that is gone upstream stays stored with its last synced values, stays in
\* the week's listing and in the week-completion total, and stays in the
\* due-date reminder selection
C38_SyncOnlyInsertsOrUpdates ==
  [][SyncKeepsRows /\ GoneStaysListed' /\ GoneStaysSelected']_vars


====
